---- MODULE Spec2Model ----
(***************************************************************************)
(* Model of constech-worker's dispatch command: argument validation, the   *)
(* WorkflowExecutor.execute state machine, the process-wide CleanupManager *)
(* (registry + signal handlers) and the Docker container the run owns.     *)
(*                                                                         *)
(* Node.js runs one callback at a time, so every action below is the code  *)
(* that runs between two awaits: the awaited operation takes effect and    *)
(* the continuation runs up to the next await.  Signals are delivered      *)
(* between such steps.                                                     *)
(***************************************************************************)
EXTENDS Integers, Sequences, FiniteSets, TLC

(***************************************************************************)
(* Bounds of the model                                                     *)
(***************************************************************************)
MaxIssueLen == 2      \* longest --issue option value explored
MaxSignals == 2       \* operator interrupts delivered to one process
MaxFaults == 1        \* Docker requests that fail in one run
LongPad == 52         \* length of the long word in prompts
MaxOutputLines == 2   \* lines the agent prints in the output-parsing runs
MaxTextLen == 6       \* pieces of a CLAUDE.md given to the instruction filter
MaxContainers == 3    \* containers the Docker daemon lists to containers --clean
MaxPromptLen == 3     \* pieces of a prompt given to the generated script
MaxTicks == 2         \* firings of the progress timer in one run
MaxRegistered == 3    \* cleanup functions registered at one time
MaxCleanups == 2      \* calls of executeCleanup in one run

(***************************************************************************)
(* JavaScript strings are sequences of one-character strings.              *)
(***************************************************************************)
Undef == <<"undefined">>          \* the value `undefined` of an optional string

WhiteSpace == {" ", "\t", "\n"}

UpperSeq == <<"A","B","C","D","E","F","G","H","I","J","K","L","M",
              "N","O","P","Q","R","S","T","U","V","W","X","Y","Z">>
LowerSeq == <<"a","b","c","d","e","f","g","h","i","j","k","l","m",
              "n","o","p","q","r","s","t","u","v","w","x","y","z">>

\* one character under the regex flag /i
ToLower(c) ==
  IF \E i \in 1..Len(UpperSeq) : UpperSeq[i] = c
  THEN LowerSeq[CHOOSE i \in 1..Len(UpperSeq) : UpperSeq[i] = c]
  ELSE c

\* String.prototype.includes(ch)
Includes(s, ch) == \E i \in 1..Len(s) : s[i] = ch

\* String.prototype.indexOf(ch): 0-based, -1 when absent
IndexOf(s, ch) ==
  IF Includes(s, ch)
  THEN (CHOOSE i \in 1..Len(s) : s[i] = ch /\ \A j \in 1..(i-1) : s[j] # ch) - 1
  ELSE -1

\* String.prototype.substring(from, to) with 0 <= from, to (0-based, to exclusive)
Substring(s, from, to) ==
  LET a == IF from > Len(s) THEN Len(s) ELSE from
      b == IF to > Len(s) THEN Len(s) ELSE to
  IN IF a <= b THEN SubSeq(s, a + 1, b) ELSE SubSeq(s, b + 1, a)

\* String.prototype.substring(from)
SubstringFrom(s, from) == Substring(s, from, Len(s))

\* String.prototype.split(ch)[0]
SplitFirst(s, ch) ==
  IF Includes(s, ch) THEN SubSeq(s, 1, IndexOf(s, ch)) ELSE s

RECURSIVE TrimStart(_)
TrimStart(s) ==
  IF s # <<>> /\ Head(s) \in WhiteSpace THEN TrimStart(Tail(s)) ELSE s

RECURSIVE TrimEnd(_)
TrimEnd(s) ==
  IF s # <<>> /\ s[Len(s)] \in WhiteSpace
  THEN TrimEnd(SubSeq(s, 1, Len(s) - 1)) ELSE s

\* String.prototype.trim()
Trim(s) == TrimEnd(TrimStart(s))

\* does `s` start with `p`, compared case-insensitively
StartsWithI(s, p) ==
  /\ Len(s) >= Len(p)
  /\ \A i \in 1..Len(p) : ToLower(s[i]) = ToLower(p[i])

\* the alternatives of /^(we need to |please |can you )/i, in regex order
FillerPhrases ==
  << <<"w","e"," ","n","e","e","d"," ","t","o"," ">>,
     <<"p","l","e","a","s","e"," ">>,
     <<"c","a","n"," ","y","o","u"," ">> >>

\* prompt.replace(/^(we need to |please |can you )/i, '')
StripFiller(s) ==
  IF \E k \in 1..Len(FillerPhrases) : StartsWithI(s, FillerPhrases[k])
  THEN LET k == CHOOSE k \in 1..Len(FillerPhrases) :
                  /\ StartsWithI(s, FillerPhrases[k])
                  /\ \A j \in 1..(k-1) : ~StartsWithI(s, FillerPhrases[j])
       IN SubstringFrom(s, Len(FillerPhrases[k]))
  ELSE s

TitleMaxLen == 50

\* createGitHubIssue: title and description extracted from the prompt
CreateIssueTitle(prompt) ==
  IF Includes(prompt, ".")
  THEN Trim(SplitFirst(prompt, "."))
  ELSE LET cleanPrompt == StripFiller(prompt)
       IN IF Len(cleanPrompt) > TitleMaxLen
          THEN Substring(cleanPrompt, 0, TitleMaxLen) ELSE cleanPrompt

CreateIssueDescription(prompt) ==
  IF Includes(prompt, ".")
  THEN Trim(SubstringFrom(prompt, IndexOf(prompt, ".") + 1))
  ELSE prompt

\* a variant of the next definition that forgets the trim()
ExecuteIssueTitle_NoTrim(prompt) ==
  IF Includes(prompt, ".")
  THEN SplitFirst(prompt, ".")
  ELSE LET cleanPrompt == StripFiller(prompt)
       IN IF Len(cleanPrompt) > TitleMaxLen
          THEN Substring(cleanPrompt, 0, TitleMaxLen) ELSE cleanPrompt

\* execute: the issue title recorded in workflowResults after creation
ExecuteIssueTitle(prompt) ==
  IF Includes(prompt, ".")
  THEN Trim(SplitFirst(prompt, "."))
  ELSE LET cleanPrompt == StripFiller(prompt)
       IN IF Len(cleanPrompt) > TitleMaxLen
          THEN Substring(cleanPrompt, 0, TitleMaxLen) ELSE cleanPrompt

(***************************************************************************)
(* JavaScript numbers as far as dispatch needs them                        *)
(***************************************************************************)
Num(n) == [k |-> "num", v |-> n]
NaN == [k |-> "nan", v |-> 0]
UndefNum == [k |-> "undef", v |-> 0]

\* truthiness of an optional string / an optional number
TruthyStr(s) == s # Undef /\ s # <<>>
TruthyNum(x) == x.k = "num" /\ x.v # 0

DigitSeq == <<"0","1","2","3","4","5","6","7","8","9">>
IsDigit(c) == \E i \in 1..Len(DigitSeq) : DigitSeq[i] = c
DigitValue(c) == (CHOOSE i \in 1..Len(DigitSeq) : DigitSeq[i] = c) - 1

RECURSIVE DigitPrefix(_)
DigitPrefix(s) ==
  IF s # <<>> /\ IsDigit(Head(s)) THEN <<Head(s)>> \o DigitPrefix(Tail(s)) ELSE <<>>

RECURSIVE DecimalValue(_)
DecimalValue(ds) ==
  IF ds = <<>> THEN 0
  ELSE 10 * DecimalValue(SubSeq(ds, 1, Len(ds) - 1)) + DigitValue(ds[Len(ds)])

\* parseInt(s) without radix, on strings that hold no hexadecimal prefix:
\* leading white space is skipped, an optional sign is read, then the longest
\* run of decimal digits; NaN when there is none
ParseInt(s) ==
  LET t == TrimStart(s)
      neg == t # <<>> /\ Head(t) = "-"
      u == IF t # <<>> /\ Head(t) \in {"-", "+"} THEN Tail(t) ELSE t
      ds == DigitPrefix(u)
  IN IF ds = <<>> THEN NaN
     ELSE Num(IF neg THEN 0 - DecimalValue(ds) ELSE DecimalValue(ds))

(***************************************************************************)
(* State                                                                   *)
(***************************************************************************)
VARIABLES
  opts,             \* DispatchOptions given on the command line
  env,              \* what the process finds: config file, bot token variable
  config,           \* the Config once ConfigManager.load() returned it
  pc,               \* the await at which dispatchCommand / execute is suspended
  request,          \* the ExecutionOptions handed to WorkflowExecutor.execute
  issueNumber,      \* execute's local `issueNumber`
  workflowResults,  \* WorkflowExecutor.workflowResults
  outcome,          \* how execute settles: "pending", "resolve" or "reject"
  github,           \* what has been asked of GitHub so far
  docker,           \* the run's container as the Docker daemon holds it
  cleanupFunctions, \* CleanupManager.cleanupFunctions
  isShuttingDown,   \* CleanupManager.isShuttingDown
  td,               \* per caller, the await at which cleanupContainer is suspended
  hist,             \* counters of teardown starts, remove calls, unregistrations
  hostDirs,         \* temporary directories that exist on the host
  tempDockerDir,    \* WorkflowExecutor.tempDockerDir
  tempScriptDir,    \* WorkflowExecutor.tempScriptDir
  stream,           \* the exec stream: what the agent prints, what was captured
  signals,          \* operator interrupts delivered so far
  proc,             \* the Node.js process: exited, exit code, what made it exit
  sh,               \* the bash process running the generated script in the container
  cl,               \* a `containers --clean` run: cleanupOrphanedContainers
  cm,               \* the CleanupManager's executeCleanup calls: what they invoked
  ini               \* an `init` run: the stored, detected and saved configuration

vars == <<opts, env, config, pc, request, issueNumber, workflowResults, outcome,
          github, docker, cleanupFunctions, isShuttingDown, td, hist, hostDirs,
          tempDockerDir, tempScriptDir, stream, signals, proc, sh, cl, cm, ini>>

\* the callers that can run the teardown closure / cleanupContainer:
\* execute's finally block and the signal handler's executeCleanup
Paths == {"fin", "sig"}

(***************************************************************************)
(* Inputs                                                                  *)
(***************************************************************************)
PromptPlease == <<"p","l","e","a","s","e"," ","f","i","x">>
PromptSentence == <<"A","d","d"," ","x","."," ","D","o"," ","y">>

IssueAlphabet == {"0", "4", "a"}

RECURSIVE StringsUpTo(_)
StringsUpTo(n) ==
  IF n = 0 THEN {<<>>}
  ELSE LET shorter == StringsUpTo(n - 1)
       IN shorter \cup {Append(s, c) : s \in shorter, c \in IssueAlphabet}

\* command lines of a full run, and of the argument handling alone
RunOptions ==
  [issue : {Undef, <<"4">>, <<"a">>}, prompt : {Undef, PromptPlease},
   createIssue : BOOLEAN, force : {FALSE}, dryRun : {FALSE}]
ArgOptions ==
  [issue : {Undef} \cup StringsUpTo(MaxIssueLen),
   prompt : {Undef, <<>>, PromptPlease, PromptSentence},
   createIssue : BOOLEAN, force : BOOLEAN, dryRun : BOOLEAN]

\* prompts of the issue-creation runs: a lead-in, a core and a tail
Rep(c, n) == [i \in 1..n |-> c]
PromptLeads ==
  { <<>>,
    <<"p","l","e","a","s","e"," ">>,
    <<"P","l","e","a","s","e"," ">>,
    <<"P","L","E","A","S","E"," ">>,
    <<"w","e"," ","n","e","e","d"," ","t","o"," ">>,
    <<"W","e"," ","N","e","e","d"," ","T","o"," ">>,
    <<"c","a","n"," ","y","o","u"," ">>,
    <<" ","p","l","e","a","s","e"," ">>,
    <<"p","l","e","a","s","e">>,
    <<"p","l","e","a","s","e"," ","c","a","n"," ","y","o","u"," ">> }
PromptCores ==
  { <<>>, <<"f","i","x">>, <<"a"," ","b">>, Rep("x", TitleMaxLen), Rep("x", LongPad) }
PromptTails ==
  { <<>>, <<".">>, <<"."," ","D","o"," ","y">>, <<" ","."," ","b",".","c"," ">>,
    <<".",".">> }
TitlePrompts == {l \o c \o t : l \in PromptLeads, c \in PromptCores, t \in PromptTails}

TitleOptions ==
  [issue : {Undef}, prompt : TitlePrompts, createIssue : {TRUE}, force : {FALSE},
   dryRun : {FALSE}]
ParseOptions ==
  [issue : {Undef}, prompt : {PromptPlease}, createIssue : {FALSE},
   force : {FALSE}, dryRun : {FALSE}]

\* config.workflow.qualityChecks of the default configuration, and one a
\* project that tests with npm configures
DefaultQualityChecks == {"pnpm typecheck", "pnpm check", "pnpm build"}
NpmQualityChecks == {"npm test"}

\* config.github as far as the engine reads it: "none" has no projectId,
\* "idOnly" no statusFieldId, "noOption" no statusOptions, "full" has all
Projects == {"none", "idOnly", "noOption", "full"}

\* the environment of a full run (a valid configuration, the token set), and
\* of the argument handling
RunEnvs ==
  [loads : {TRUE}, valid : {TRUE}, token : {TRUE}, project : {"none", "full"},
   debug : {FALSE}, qualityChecks : {DefaultQualityChecks},
   mcpServers : {[github |-> FALSE, semgrep |-> FALSE, ref |-> FALSE],
                 [github |-> TRUE, semgrep |-> FALSE, ref |-> TRUE]}]
ArgEnvs ==
  [loads : BOOLEAN, valid : BOOLEAN, token : BOOLEAN, project : Projects,
   debug : {FALSE}, qualityChecks : {DefaultQualityChecks},
   mcpServers : {[github |-> FALSE, semgrep |-> FALSE, ref |-> FALSE]}]

TitleEnvs ==
  [loads : {TRUE}, valid : {TRUE}, token : {TRUE}, project : {"none", "full"},
   debug : {FALSE}, qualityChecks : {DefaultQualityChecks},
   mcpServers : {[github |-> FALSE, semgrep |-> FALSE, ref |-> FALSE]}]
ParseEnvs ==
  [loads : {TRUE}, valid : {TRUE}, token : {TRUE}, project : {"none"},
   debug : {FALSE}, qualityChecks : {DefaultQualityChecks},
   mcpServers : {[github |-> FALSE, semgrep |-> FALSE, ref |-> FALSE]}]

NoConfig ==
  [loaded |-> FALSE, valid |-> FALSE, project |-> "none", qualityChecks |-> {},
   mcpServers |-> [github |-> FALSE, semgrep |-> FALSE, ref |-> FALSE]]

\* ConfigSchema.parse on a document that conforms to the schema or does not
SchemaParse(conforms) == IF conforms THEN "parsed" ELSE "threw"

\* a variant of the next definition that does not parse the document
ConfigLoad_Unparsed(e) == IF e.loads THEN "loaded" ELSE "threw"

\* ConfigManager.load(): the search for the file, then ConfigSchema.parse on
\* what was found (or on the defaults); either failure is rethrown
ConfigLoad(e) ==
  IF e.loads /\ SchemaParse(e.valid) = "parsed" THEN "loaded" ELSE "threw"

\* the configuration load() returns and caches: the output of the parse
LoadConfig(e) ==
  [loaded |-> TRUE, valid |-> e.valid, project |-> e.project,
   qualityChecks |-> e.qualityChecks,
   mcpServers |-> e.mcpServers]

\* ConfigManager.validate(): load() from the cache, ConfigSchema.parse again
ConfigValidate(cfg) == [valid |-> SchemaParse(cfg.valid) = "parsed"]

HasProjectId(cfg) == cfg.project # "none"
HasStatusFieldId(cfg) == cfg.project \in {"noOption", "full"}
HasStatusOptions(cfg) == cfg.project = "full"

NoRequest ==
  [called |-> FALSE, issueNumber |-> UndefNum, prompt |-> Undef, createIssue |-> FALSE]

FetchedTitle == <<"T">>       \* the title GitHub returns for an existing issue
NewIssueNumber == 7           \* the number GitHub gives a created issue

\* a qualityChecks object without keys, which is never stored
QualityUnset == [typecheck |-> "absent", lint |-> "absent", build |-> "absent"]

NoResults ==
  [issueNumber |-> UndefNum, issueTitle |-> Undef, issueCreated |-> FALSE,
   success |-> FALSE, error |-> FALSE, endTimeSet |-> 0,
   branchName |-> "unset", commitHash |-> "unset", prNumber |-> "unset",
   prUrl |-> "unset", qualityChecks |-> QualityUnset, summaries |-> 0]

\* what the agent prints: lines of the exec stream
OutputLines ==
  {"noise", "Created branch feat/x", "commit abc1234",
   "pull request #12", "https://github.com/o/r/pull/12",
   "pnpm typecheck", "typecheck failed"}

RunPlans == { <<"Created branch feat/x">> }

RECURSIVE PlansUpTo(_)
PlansUpTo(n) ==
  IF n = 0 THEN {<<>>}
  ELSE LET shorter == PlansUpTo(n - 1)
       IN shorter \cup {Append(o, l) : o \in shorter, l \in OutputLines}
ParsePlans == PlansUpTo(MaxOutputLines)

\* what the agent prints about quality checks, and the outputs made of it
QualityLines == {"noise", "pnpm build", "build failed", "npm test", "pnpm lint"}
QualityPlans == UNION {[1..n -> QualityLines] : n \in 0..MaxOutputLines}

NoExitCode == 0 - 1              \* no exit code yet

\* no `containers --clean` run: the state of `cl` in the other specifications
(***************************************************************************)
(* Configuration objects of `init`: an object is a function from its keys  *)
(* to values, a value a leaf (a string, null, undefined) or an object.     *)
(***************************************************************************)
Leaf(v) == [kind |-> "leaf", v |-> v]
Obj(fields) == [kind |-> "object", fields |-> fields]
EmptyObject == [k \in {} |-> Leaf("undefined")]

\* no `init` run: the state of `ini` in the other specifications
NoInit ==
  [phase |-> "idle", via |-> "none", force |-> FALSE, exists |-> FALSE,
   current |-> EmptyObject, project |-> EmptyObject, detected |-> EmptyObject,
   saved |-> EmptyObject]

\* the CleanupManager before any call of executeCleanup
NoManager ==
  [op |-> "none", calls |-> 0, invoked |-> <<>>, wrappers |-> <<>>,
   warnings |-> 0, result |-> "none"]

NoCleanup ==
  [force |-> FALSE, listed |-> <<>>, workers |-> <<>>, phase |-> "idle",
   at |-> 0, cleaned |-> 0, failed |-> 0, skipped |-> 0, outcome |-> <<>>,
   calls |-> {}]

\* what docker.listContainers({all: true}) can answer, as far as the filter
\* and the loop read it: whether a name includes "constech" or "worker", the
\* image ("constech..." / "node..." / another), whether a mount has the
\* destination /workspace, and the State
ContainerInfos ==
  {[nameMatch |-> k[1], image |-> k[2], mount |-> k[3], state |-> st] :
     k \in {<<TRUE, "other", FALSE>>, <<FALSE, "constech", FALSE>>,
             <<FALSE, "node", TRUE>>, <<FALSE, "node", FALSE>>,
             <<FALSE, "other", TRUE>>},
     st \in {"running", "exited"}}

CleanRuns ==
  {[NoCleanup EXCEPT !.force = f, !.listed = l, !.phase = "list"] :
     f \in BOOLEAN,
     l \in UNION {[1..n -> ContainerInfos] : n \in 0..MaxContainers}}

InitHost(Options, Envs, Plans, Shells) ==
  /\ cm = NoManager
  /\ sh \in Shells
  /\ opts \in Options
  /\ env \in Envs
  /\ config = NoConfig
  /\ pc = "validate"
  /\ request = NoRequest
  /\ issueNumber = UndefNum
  /\ workflowResults = NoResults
  /\ outcome = "pending"
  /\ github = [calls |-> {}, boardFailed |-> FALSE, createFailed |-> FALSE,
               title |-> Undef, description |-> Undef]
  /\ docker = [container |-> "none", calls |-> {}, faults |-> 0,
               externalRemoved |-> FALSE, build |-> <<>>, mcpConfig |-> <<>>,
               binds |-> {}, env |-> <<>>]
  /\ cleanupFunctions = <<>>
  /\ isShuttingDown = FALSE
  /\ td = [p \in Paths |-> "idle"]
  /\ hist = [tdStarts |-> 0, unregistered |-> 0, signalAt |-> "none",
             removeCalls |-> [p \in Paths |-> 0],
             inspected |-> [p \in Paths |-> "none"],
             running |-> [p \in Paths |-> FALSE],
             stopCalls |-> [p \in Paths |-> 0],
             failed |-> [p \in Paths |-> {}],
             hints |-> [p \in Paths |-> 0],
             startFailed |-> FALSE]
  /\ hostDirs = {}
  /\ tempDockerDir = "none"
  /\ tempScriptDir = "none"
  /\ stream \in [plan : Plans, output : {<<>>}, exitCode : {NoExitCode},
                 inspected : {NoExitCode}, timer : {"unset"},
                 spinnerText : {<<>>}, frameIndex : {0}, events : {<<>>},
                 console : {<<>>}]
  /\ signals = 0
  /\ proc = [exited |-> FALSE, exitCode |-> 0, exitVia |-> "none", inflight |-> {}]

InitWith(Options, Envs, Plans, Shells) ==
  InitHost(Options, Envs, Plans, Shells) /\ cl = NoCleanup /\ ini = NoInit

\* no script is running: the state of `sh` in the specifications of the host side
NoShell ==
  [mcpServers |-> [github |-> FALSE, semgrep |-> FALSE, ref |-> FALSE],
   world |-> [credFile |-> TRUE, branch |-> "working", dirty |-> FALSE],
   claudeFile |-> "found", claudeMd |-> <<>>, instructions |-> <<>>,
   read |-> [full |-> <<>>, filtered |-> <<>>, hasWorkerSections |-> FALSE],
   base |-> "", baseBranch |-> "", promptBranch |-> "",
   prompt |-> <<>>, deliveredPrompt |-> <<>>, deliveredBody |-> <<>>,
   promptFile |-> <<>>, piped |-> <<>>, interpreted |-> FALSE,
   script |-> <<>>, ran |-> <<>>, errexit |-> FALSE, exit |-> NoExitCode]

Init == InitWith(RunOptions, RunEnvs, RunPlans, {NoShell})

(***************************************************************************)
(* The process and the cleanup registry                                    *)
(***************************************************************************)
\* Docker requests already sent whose answer nobody will read once the
\* process exits; `mainStep` says the exit is the main flow's own step, whose
\* request has been answered; `tds` is where the teardowns stand at the exit
PendingOps(mainStep, tds) ==
  (IF ~mainStep /\ pc = "createContainer" THEN {"create"} ELSE {})
  \cup (IF ~mainStep /\ pc = "start" THEN {"start"} ELSE {})
  \cup (IF \E p \in Paths : tds[p] = "stop" THEN {"stop"} ELSE {})
  \cup (IF \E p \in Paths : tds[p] = "remove" THEN {"remove"} ELSE {})

\* process.exit(code)
ProcessExit(code, via, mainStep, tds) ==
  proc' = [exited |-> TRUE, exitCode |-> code, exitVia |-> via,
           inflight |-> PendingOps(mainStep, tds)]

\* CleanupManager.registerCleanup
RegisterCleanup(fns, f) == Append(fns, f)

\* a variant of the next definition that removes nothing
UnregisterCleanup_Keeps(fns, f) == fns

\* CleanupManager.unregisterCleanup: indexOf, then splice(index, 1)
UnregisterCleanup(fns, f) ==
  IF \E i \in 1..Len(fns) : fns[i] = f
  THEN LET i == CHOOSE i \in 1..Len(fns) :
                  fns[i] = f /\ \A j \in 1..(i-1) : fns[j] # f
       IN SubSeq(fns, 1, i - 1) \o SubSeq(fns, i + 1, Len(fns))
  ELSE fns

\* exitGracefully(code): executeCleanup, then process.exit(code).  At every
\* call site in dispatchCommand the registry is empty: execute registers the
\* closure right before its try block and unregisters it in the finally block
\* a variant of the next definition that always leaves with code 0
ExitGracefully_Zero(code, tds) == ProcessExit(0, "graceful", TRUE, tds)
ExitGracefully(code, tds) == ProcessExit(code, "graceful", TRUE, tds)

(***************************************************************************)
(* dispatchCommand                                                         *)
(***************************************************************************)
\* a variant of the next definition without the --issue / --create-issue check
ValidateArgs_NoExclusion(o) ==
  IF ~TruthyStr(o.issue) /\ ~TruthyStr(o.prompt) THEN "reject" ELSE "ok"

\* the two argument checks at the head of dispatchCommand
ValidateArgs(o) ==
  IF ~TruthyStr(o.issue) /\ ~TruthyStr(o.prompt) THEN "reject"
  ELSE IF TruthyStr(o.issue) /\ o.createIssue THEN "reject"
  ELSE "ok"

\* the ExecutionOptions dispatchCommand builds for executor.execute
BuildRequest(o) ==
  [called |-> TRUE,
   issueNumber |-> IF TruthyStr(o.issue) THEN ParseInt(o.issue) ELSE UndefNum,
   prompt |-> o.prompt,
   createIssue |-> o.createIssue]

\* the GitHub / container request that is in flight at an await of the main flow
GithubCallAt(p) ==
  IF p \in {"getIssue", "createIssue", "addToProject", "statusReady", "setStatus"}
  THEN {p} ELSE {}
DockerCallAt(p) ==
  IF p \in {"image", "createContainer", "start", "startInspect", "exec",
            "execInspect", "logs"}
  THEN {p} ELSE {}

\* McpManager.getEnabledServers
GetEnabledServers(m) ==
  (IF m.github THEN <<"github">> ELSE <<>>)
  \o (IF m.semgrep THEN <<"semgrep">> ELSE <<>>)
  \o (IF m.ref THEN <<"ref">> ELSE <<>>)

\* McpManager.getMcpEnvironment: the variables added to the container's Env
GetMcpEnvironment(servers) ==
  IF \E i \in 1..Len(servers) : servers[i] = "github"
  THEN <<"GITHUB_TOKEN">> ELSE <<>>

\* McpManager.generateDockerfileCommands: one npm install of the packages of
\* the enabled servers (every server has a package name)
GenerateDockerfileCommands(servers) ==
  IF servers = <<>> THEN <<>>
  ELSE <<[cmd |-> "RUN npm install -g", packages |-> servers]>>

\* a variant of the next definition that writes an empty document
GenerateMcpConfig_Always(servers) ==
  [path |-> "mcp-config.json", written |-> TRUE, doc |-> servers]

\* McpManager.generateMcpConfig: nothing without an enabled server; else the
\* document with the entry of each enabled server, written to the directory
GenerateMcpConfig(servers) ==
  IF servers = <<>> THEN [path |-> "", written |-> FALSE, doc |-> <<>>]
  ELSE [path |-> "mcp-config.json", written |-> TRUE, doc |-> servers]

\* a variant of the next definition that puts the Dockerfile and MCP
\* directories into the project directory
TempDirParent_InProject(dir) ==
  IF dir = "script" THEN "os.tmpdir()" ELSE "process.cwd()"

\* where fs.mkdtemp makes the engine's directories on the host:
\* constech-docker-*, constech-mcp-* and constech-script-* under os.tmpdir()
TempDirParent(dir) == "os.tmpdir()"

\* prepareContainer's containerBinds: the repository read-only, the volume of
\* the agent's credentials, and the MCP configuration when there is one
ContainerBinds(servers) ==
  {[from |-> "process.cwd()", to |-> "/workspace/repo", mode |-> "ro"],
   [from |-> "constech-worker-claude", to |-> "/home/worker/.claude",
    mode |-> "rw"]}
  \cup (IF GenerateMcpConfig(servers).path # ""
        THEN {[from |-> GenerateMcpConfig(servers).path,
               to |-> "/tmp/mcp-config.json", mode |-> "ro"]}
        ELSE {})

\* move the main flow to its next await, recording the request it sends there;
\* `d` is the Docker side as the step leaves it
Await(p, d) ==
  /\ pc' = p
  /\ github' = [github EXCEPT !.calls = @ \cup GithubCallAt(p)]
  /\ docker' =
       [d EXCEPT
          !.calls = @ \cup DockerCallAt(p),
          !.binds = IF p = "createContainer"
                    THEN ContainerBinds(GetEnabledServers(config.mcpServers))
                    ELSE @,
          !.env = IF p = "createContainer"
                  THEN GetMcpEnvironment(GetEnabledServers(config.mcpServers))
                  ELSE @]

\* setIssueStatus(issueNumber, 'inProgress') reaches its GitHub call only with
\* projectId, statusFieldId and the status option configured
StatusPhase(num, cfg) ==
  IF /\ TruthyNum(num) /\ HasProjectId(cfg)
     /\ HasStatusFieldId(cfg) /\ HasStatusOptions(cfg)
  THEN "setStatus" ELSE "image"

\* a variant of the next definition that never creates an issue
CreatePhase_SkipsCreation(req, num, cfg) == StatusPhase(num, cfg)

\* execute, from the createIssue test on
CreatePhase(req, num, cfg) ==
  IF req.createIssue /\ TruthyStr(req.prompt) THEN "createIssue"
  ELSE StatusPhase(num, cfg)

\* execute, from its first line to its first await
ExecutePhase(req, cfg) ==
  IF TruthyNum(req.issueNumber) /\ ~req.createIssue THEN "getIssue"
  ELSE CreatePhase(req, req.issueNumber, cfg)

\* dispatchCommand up to `await showAnimatedBanner()`
DispatchValidate ==
  /\ ~proc.exited /\ pc = "validate"
  /\ IF ValidateArgs(opts) = "reject"
     THEN ExitGracefully(1, td) /\ UNCHANGED pc
     ELSE pc' = "banner" /\ UNCHANGED proc
  /\ UNCHANGED <<ini, cm, cl, sh, opts, env, config, request, issueNumber, workflowResults, outcome,
                 github, docker, cleanupFunctions, isShuttingDown, td, hist,
                 hostDirs, tempDockerDir, tempScriptDir, stream, signals>>

\* a variant of the next definition that wants the bot token before the dry run
DispatchGate_TokenFirst(o, e, cfg) ==
  IF ~ConfigValidate(cfg).valid /\ ~o.force THEN "abort"
  ELSE IF ~e.token THEN "abort"
  ELSE IF o.dryRun THEN "dryRun"
  ELSE "execute"

\* dispatchCommand between the loaded configuration and the executor: the
\* validation test, the dry run (showDryRun only prints), the bot token
DispatchGate(o, e, cfg) ==
  IF ~ConfigValidate(cfg).valid /\ ~o.force THEN "abort"
  ELSE IF o.dryRun THEN "dryRun"
  ELSE IF ~e.token THEN "abort"
  ELSE "execute"

\* dispatchCommand after the banner: load and validate the configuration, dry
\* run, bot token, then executor.execute up to its first await
DispatchRun ==
  /\ ~proc.exited /\ pc = "banner"
  /\ IF ConfigLoad(env) = "threw"
     THEN /\ ExitGracefully(1, td)
          /\ UNCHANGED <<config, pc, request, issueNumber, workflowResults,
                         github, docker>>
     ELSE /\ config' = LoadConfig(env)
          /\ IF DispatchGate(opts, env, config') = "abort"
             THEN /\ ExitGracefully(1, td)
                  /\ UNCHANGED <<pc, request, issueNumber, workflowResults,
                                 github, docker>>
             ELSE IF DispatchGate(opts, env, config') = "dryRun"
             THEN /\ pc' = "returned"
                  /\ UNCHANGED <<proc, request, issueNumber, workflowResults,
                                 github, docker>>
             ELSE /\ request' = BuildRequest(opts)
                  /\ issueNumber' = request'.issueNumber
                  /\ workflowResults' =
                       [NoResults EXCEPT !.issueNumber = request'.issueNumber]
                  /\ Await(ExecutePhase(request', config'), docker)
                  /\ UNCHANGED proc
  /\ UNCHANGED <<ini, cm, cl, sh, opts, env, outcome, cleanupFunctions, isShuttingDown, td, hist,
                 hostDirs, tempDockerDir, tempScriptDir, stream, signals>>

(***************************************************************************)
(* GitHubClient                                                            *)
(***************************************************************************)
\* how a GitHubClient call ends for its caller, given whether the request to
\* GitHub succeeded: createIssue and getIssue rethrow, the project-board calls
\* catch and log
\* a variant of the next definition that swallows the failure
CreateIssueCall_Swallows(ok) == "returned"
CreateIssueCall(ok) == IF ok THEN "returned" ELSE "threw"
GetIssueCall(ok) == IF ok THEN "returned" ELSE "threw"
AddIssueToProject(ok) == "returned"
\* a variant of the next definition that lets the failure out
UpdateProjectItemStatus_Throws(ok) == IF ok THEN "returned" ELSE "threw"
UpdateProjectItemStatus(ok) == "returned"

(***************************************************************************)
(* WorkflowExecutor.execute, phase 1: issue and status                     *)
(***************************************************************************)
\* execute rejects outside its try block: dispatchCommand's catch prints the
\* troubleshooting list and calls exitGracefully(1)
ExecuteRejectsEarly ==
  /\ outcome' = "reject"
  /\ ExitGracefully(1, td)

\* a variant of the next definition that lets the failure out of execute
GetIssueCatch_Rethrows(result) == IF result = "threw" THEN "reject" ELSE "continue"

\* execute's try/catch around github.getIssue: a failure is only logged
GetIssueCatch(result) == "continue"

\* getIssue answered: the title is kept, a failure is only logged
GetIssueReturns ==
  /\ ~proc.exited /\ pc = "getIssue"
  /\ \E ok \in BOOLEAN :
       /\ workflowResults' =
            IF GetIssueCall(ok) = "returned"
            THEN [workflowResults EXCEPT !.issueTitle = FetchedTitle]
            ELSE workflowResults
       /\ IF GetIssueCatch(GetIssueCall(ok)) = "reject"
          THEN ExecuteRejectsEarly /\ UNCHANGED <<pc, github, docker>>
          ELSE /\ Await(CreatePhase(request, issueNumber, config), docker)
               /\ UNCHANGED <<outcome, proc>>
  /\ UNCHANGED <<ini, cm, cl, sh, opts, env, config, request, issueNumber, cleanupFunctions,
                 isShuttingDown, td, hist, hostDirs, tempDockerDir,
                 tempScriptDir, stream, signals>>

\* createGitHubIssue returned issue.number to execute: lines 103-115, then the
\* status phase; `g` is what GitHub has been asked so far
IssueCreated(g) ==
  /\ issueNumber' = Num(NewIssueNumber)
  /\ workflowResults' =
       [workflowResults EXCEPT !.issueNumber = Num(NewIssueNumber),
                               !.issueCreated = TRUE,
                               !.issueTitle = ExecuteIssueTitle(request.prompt)]
  /\ pc' = StatusPhase(Num(NewIssueNumber), config)
  /\ github' = [g EXCEPT !.calls = @ \cup GithubCallAt(pc')]
  /\ docker' = [docker EXCEPT !.calls = @ \cup DockerCallAt(pc')]
  /\ UNCHANGED <<outcome, proc>>

\* createGitHubIssue threw: its catch rethrows and execute rejects
IssueCreationThrows ==
  /\ ExecuteRejectsEarly
  /\ UNCHANGED <<issueNumber, workflowResults, pc, docker>>

\* github.createIssue answered
CreateIssueReturns ==
  /\ ~proc.exited /\ pc = "createIssue"
  /\ \E ok \in BOOLEAN :
       IF CreateIssueCall(ok) = "threw"
       THEN IssueCreationThrows /\ github' = [github EXCEPT !.createFailed = TRUE]
       ELSE LET g == [github EXCEPT
                        !.createFailed = ~ok,
                        !.title = CreateIssueTitle(request.prompt),
                        !.description = CreateIssueDescription(request.prompt)]
            IN IF HasProjectId(config)
               THEN /\ pc' = "addToProject"
                    /\ github' = [g EXCEPT !.calls = @ \cup {"addToProject"}]
                    /\ UNCHANGED <<issueNumber, workflowResults, outcome, proc,
                                   docker>>
               ELSE IssueCreated(g)
  /\ UNCHANGED <<ini, cm, cl, sh, opts, env, config, request, cleanupFunctions, isShuttingDown, td,
                 hist, hostDirs, tempDockerDir, tempScriptDir, stream, signals>>

\* github.addIssueToProject answered (createGitHubIssue, lines 228-243)
AddToProjectReturns ==
  /\ ~proc.exited /\ pc = "addToProject"
  /\ \E ok \in BOOLEAN :
       LET g == [github EXCEPT !.boardFailed = @ \/ ~ok]
       IN IF AddIssueToProject(ok) = "threw"
          THEN IssueCreationThrows /\ github' = g
          ELSE IF HasStatusFieldId(config) /\ HasStatusOptions(config)
          THEN /\ pc' = "statusReady"
               /\ github' = [g EXCEPT !.calls = @ \cup {"statusReady"}]
               /\ UNCHANGED <<issueNumber, workflowResults, outcome, proc, docker>>
          ELSE IssueCreated(g)
  /\ UNCHANGED <<ini, cm, cl, sh, opts, env, config, request, cleanupFunctions, isShuttingDown, td,
                 hist, hostDirs, tempDockerDir, tempScriptDir, stream, signals>>

\* github.updateProjectItemStatus(..., ready, ...) answered
StatusReadyReturns ==
  /\ ~proc.exited /\ pc = "statusReady"
  /\ \E ok \in BOOLEAN :
       LET g == [github EXCEPT !.boardFailed = @ \/ ~ok]
       IN IF UpdateProjectItemStatus(ok) = "threw"
          THEN IssueCreationThrows /\ github' = g
          ELSE IssueCreated(g)
  /\ UNCHANGED <<ini, cm, cl, sh, opts, env, config, request, cleanupFunctions, isShuttingDown, td,
                 hist, hostDirs, tempDockerDir, tempScriptDir, stream, signals>>

\* setIssueStatus: github.updateProjectItemStatus(..., inProgress, ...) answered;
\* an exception is logged and rethrown, and execute rejects
SetStatusReturns ==
  /\ ~proc.exited /\ pc = "setStatus"
  /\ \E ok \in BOOLEAN :
       IF UpdateProjectItemStatus(ok) = "threw"
       THEN /\ ExecuteRejectsEarly
            /\ github' = [github EXCEPT !.boardFailed = @ \/ ~ok]
            /\ UNCHANGED <<pc, docker>>
       ELSE /\ pc' = "image"
            /\ github' = [github EXCEPT !.boardFailed = @ \/ ~ok]
            /\ docker' = [docker EXCEPT !.calls = @ \cup {"image"}]
            /\ UNCHANGED <<outcome, proc>>
  /\ UNCHANGED <<ini, cm, cl, sh, opts, env, config, request, issueNumber, workflowResults,
                 cleanupFunctions, isShuttingDown, td, hist, hostDirs,
                 tempDockerDir, tempScriptDir, stream, signals>>

(***************************************************************************)
(* WorkflowExecutor.execute, phase 2: prepareContainer                     *)
(***************************************************************************)
ContainerExists == docker.container \in {"created", "running", "exited"}

\* whether the next Docker request may fail
Faults == IF docker.faults < MaxFaults THEN BOOLEAN ELSE {FALSE}

\* ensureContainerImage answered.  "dev": the devcontainer image was built;
\* "worker": no devcontainer (or its build failed) and buildWorkerImage built
\* the default image from a Dockerfile generated into a temporary directory;
\* "workerFail": that docker build failed and prepareContainer throws.
\* Then prepareMcpConfiguration, which awaits only with an MCP server enabled.
ImageReturns ==
  /\ ~proc.exited /\ pc = "image"
  /\ \E how \in {"dev", "worker", "workerFail"} :
       /\ IF how = "dev"
          THEN UNCHANGED <<hostDirs, tempDockerDir>>
          ELSE /\ hostDirs' = hostDirs \cup {"dockerfile"}
               /\ tempDockerDir' = "dockerfile"
       /\ LET servers == GetEnabledServers(config.mcpServers)
              built == IF how = "dev" THEN docker
                       ELSE [docker EXCEPT
                               !.build = GenerateDockerfileCommands(servers)]
          IN IF how = "workerFail"
             THEN /\ ExecuteRejectsEarly
                  /\ docker' = built
                  /\ UNCHANGED <<pc, github>>
             ELSE /\ Await(IF servers # <<>> THEN "mcpConfig"
                           ELSE "createContainer", built)
                  /\ UNCHANGED <<outcome, proc>>
  /\ UNCHANGED <<ini, cm, cl, sh, opts, env, config, request, issueNumber, workflowResults,
                 cleanupFunctions, isShuttingDown, td, hist, tempScriptDir,
                 stream, signals>>

\* prepareMcpConfiguration: the MCP configuration was written into a new
\* temporary directory, which replaces tempDockerDir; then docker.createContainer
McpConfigReturns ==
  /\ ~proc.exited /\ pc = "mcpConfig"
  /\ hostDirs' = hostDirs \cup {"mcp"}
  /\ \E ok \in BOOLEAN :
       IF ok
       THEN /\ tempDockerDir' = "mcp"
            /\ Await("createContainer",
                     [docker EXCEPT
                        !.mcpConfig =
                          GenerateMcpConfig(
                            GetEnabledServers(config.mcpServers)).doc])
            /\ UNCHANGED <<outcome, proc>>
       ELSE /\ ExecuteRejectsEarly
            /\ UNCHANGED <<tempDockerDir, pc, github, docker>>
  /\ UNCHANGED <<ini, cm, cl, sh, opts, env, config, request, issueNumber, workflowResults,
                 cleanupFunctions, isShuttingDown, td, hist, tempScriptDir,
                 stream, signals>>

\* docker.createContainer answered; on success execute registers the teardown
\* closure and executeWorkflow sends container.start()
CreateContainerReturns ==
  /\ ~proc.exited /\ pc = "createContainer"
  /\ \E fault \in Faults :
       IF fault
       THEN /\ ExecuteRejectsEarly
            /\ docker' = [docker EXCEPT !.faults = @ + 1]
            /\ UNCHANGED <<pc, cleanupFunctions>>
       ELSE /\ pc' = "start"
            /\ docker' = [docker EXCEPT !.container = "created",
                                        !.calls = @ \cup {"start"}]
            /\ cleanupFunctions' = RegisterCleanup(cleanupFunctions, "teardown")
            /\ UNCHANGED <<outcome, proc>>
  /\ UNCHANGED <<ini, cm, cl, sh, opts, env, config, request, issueNumber, workflowResults, github,
                 isShuttingDown, td, hist, hostDirs, tempDockerDir,
                 tempScriptDir, stream, signals>>

(***************************************************************************)
(* WorkflowExecutor.execute, phase 3: executeWorkflow and showProgress     *)
(***************************************************************************)
\* the catch block of executeWorkflow: log, then `await container.logs(...)`
ExecutionFails ==
  /\ pc' = "logs"
  /\ UNCHANGED <<workflowResults, outcome, cleanupFunctions, td, hist>>

\* container.start() answered; on success a one-second sleep, then inspect
StartReturns ==
  /\ ~proc.exited /\ pc = "start"
  /\ \E fault \in Faults :
       IF ~fault /\ docker.container = "created"
       THEN /\ pc' = "startInspect"
            /\ docker' = [docker EXCEPT !.container = "running",
                                        !.calls = @ \cup {"startInspect"}]
            /\ UNCHANGED hist
       ELSE /\ pc' = "logs"
            /\ docker' = [docker EXCEPT !.faults = @ + (IF fault THEN 1 ELSE 0),
                                        !.calls = @ \cup {"logs"}]
            /\ hist' = [hist EXCEPT !.startFailed = TRUE]
  /\ UNCHANGED <<ini, cm, cl, sh, opts, env, config, request, issueNumber, workflowResults, outcome,
                 github, cleanupFunctions, isShuttingDown, td, hostDirs,
                 tempDockerDir, tempScriptDir, stream, signals, proc>>

\* container.inspect() answered: a container that is not running is an error;
\* otherwise the script is generated and written to a new temporary directory
StartInspectReturns ==
  /\ ~proc.exited /\ pc = "startInspect"
  /\ \E fault \in Faults :
       IF ~fault /\ docker.container = "running"
       THEN /\ pc' = "script"
            /\ UNCHANGED <<docker, hist>>
       ELSE /\ pc' = "logs"
            /\ docker' = [docker EXCEPT !.faults = @ + (IF fault THEN 1 ELSE 0),
                                        !.calls = @ \cup {"logs"}]
            /\ hist' = [hist EXCEPT !.startFailed = TRUE]
  /\ UNCHANGED <<ini, cm, cl, sh, opts, env, config, request, issueNumber, workflowResults, outcome,
                 github, cleanupFunctions, isShuttingDown, td, hostDirs,
                 tempDockerDir, tempScriptDir, stream, signals, proc>>

\* the script file was written (mkdtemp, writeFile, chmod); container.exec sent
ScriptWritten ==
  /\ ~proc.exited /\ pc = "script"
  /\ hostDirs' = hostDirs \cup {"script"}
  /\ tempScriptDir' = "script"
  /\ pc' = "exec"
  /\ docker' = [docker EXCEPT !.calls = @ \cup {"exec"}]
  /\ UNCHANGED <<ini, cm, cl, sh, opts, env, config, request, issueNumber, workflowResults, outcome,
                 github, cleanupFunctions, isShuttingDown, td, hist,
                 tempDockerDir, stream, signals, proc>>

\* container.exec and exec.start answered: showProgress attaches to the stream
ExecReturns ==
  /\ ~proc.exited /\ pc = "exec"
  /\ \E fault \in Faults :
       IF ~fault /\ docker.container = "running"
       THEN /\ pc' = "streaming"
            /\ stream' = [stream EXCEPT
                            !.timer = "set",
                            !.spinnerText = <<"Executing Claude Code workflow...">>]
            /\ UNCHANGED docker
       ELSE /\ pc' = "logs"
            /\ docker' = [docker EXCEPT !.faults = @ + (IF fault THEN 1 ELSE 0),
                                        !.calls = @ \cup {"logs"}]
            /\ UNCHANGED stream
  /\ UNCHANGED <<ini, cm, cl, sh, opts, env, config, request, issueNumber, workflowResults, outcome,
                 github, cleanupFunctions, isShuttingDown, td, hist, hostDirs,
                 tempDockerDir, tempScriptDir, signals, proc>>

\* the `frames` array of showProgress
FrameCount == 20

\* ConsoleLogger.debug: prints only when DEBUG names constech-worker
LoggerDebug(debugEnabled, console, message, text) ==
  IF debugEnabled THEN Append(console, <<"[DEBUG]", message, text>>)
  ELSE console

\* a variant of the next definition that leaves the timer running
ClearInterval_Keeps(timer) == timer
\* clearInterval(animationInterval)
ClearInterval(timer) == IF timer = "unset" THEN timer ELSE "cleared"

\* the setInterval callback of showProgress: the next frame and the elapsed
\* time become the spinner's text
ProgressTick ==
  /\ ~proc.exited /\ stream.timer = "set"
  /\ Cardinality({i \in 1..Len(stream.events) : stream.events[i] = "tick"})
       < MaxTicks
  /\ stream' = [stream EXCEPT
                  !.spinnerText = <<"frame", stream.frameIndex, "mm:ss">>,
                  !.frameIndex = (@ + 1) % FrameCount,
                  !.events = Append(@, "tick")]
  /\ UNCHANGED <<ini, cm, cl, sh, opts, env, config, pc, request, issueNumber, workflowResults,
                 outcome, github, docker, cleanupFunctions, isShuttingDown, td,
                 hist, hostDirs, tempDockerDir, tempScriptDir, signals, proc>>

\* stream.on('data'): the chunk is appended to the captured output and
\* handed to logger.debug
StreamData ==
  /\ ~proc.exited /\ pc = "streaming"
  /\ docker.container = "running"
  /\ Len(stream.output) < Len(stream.plan)
  /\ LET text == stream.plan[Len(stream.output) + 1]
     IN stream' = [stream EXCEPT
                     !.output = Append(@, text),
                     !.console = LoggerDebug(env.debug, @, "Container output:", text),
                     !.events = Append(@, "data")]
  /\ UNCHANGED <<ini, cm, cl, sh, opts, env, config, pc, request, issueNumber, workflowResults,
                 outcome, github, docker, cleanupFunctions, isShuttingDown, td,
                 hist, hostDirs, tempDockerDir, tempScriptDir, signals, proc>>

KilledExitCode == 137

\* the exit codes the exec can end with: the agent's own once it has printed
\* everything, 137 once the container has been stopped or removed
EndCodes ==
  (IF Len(stream.output) = Len(stream.plan) THEN {0, 1} ELSE {})
  \cup (IF docker.container # "running" THEN {KilledExitCode} ELSE {})

\* stream.on('end'): the animation stops and exec.inspect() is sent
StreamEnd ==
  /\ ~proc.exited /\ pc = "streaming"
  /\ \E code \in EndCodes :
       stream' = [stream EXCEPT !.exitCode = code,
                                !.timer = ClearInterval(@),
                                !.events = Append(@, "end")]
  /\ pc' = "execInspect"
  /\ docker' = [docker EXCEPT !.calls = @ \cup {"execInspect"}]
  /\ UNCHANGED <<ini, cm, cl, sh, opts, env, config, request, issueNumber, workflowResults, outcome,
                 github, cleanupFunctions, isShuttingDown, td, hist, hostDirs,
                 tempDockerDir, tempScriptDir, signals, proc>>

\* stream.on('error'): showProgress rejects
StreamError ==
  /\ ~proc.exited /\ pc = "streaming"
  /\ pc' = "logs"
  /\ docker' = [docker EXCEPT !.calls = @ \cup {"logs"}]
  /\ stream' = [stream EXCEPT
                  !.timer = ClearInterval(@),
                  !.spinnerText = <<"Stream error during execution">>,
                  !.events = @ \o <<"error", "settled">>]
  /\ UNCHANGED <<ini, cm, cl, sh, opts, env, config, request, issueNumber, workflowResults, outcome,
                 github, cleanupFunctions, isShuttingDown, td, hist, hostDirs,
                 tempDockerDir, tempScriptDir, signals, proc>>

(***************************************************************************)
(* parseWorkflowResults: the regular expressions, line by line (no pattern *)
(* of it matches across a line break)                                      *)
(***************************************************************************)
\* capture of /(?:Created|Checked out|Switching to) (?:branch )?['"`]?([a-zA-Z0-9\-_/]+)['"`]?/i
BranchCapture(line) ==
  IF line = "Created branch feat/x" THEN "feat/x" ELSE "unset"
\* capture of /(?:commit|Commit) ([a-f0-9]{7,40})/i
CommitCapture(line) ==
  IF line = "commit abc1234" THEN "abc1234" ELSE "unset"
\* capture of /pull request.*?#(\d+)/i, else /PR.*?#(\d+)/i
PrNumberCapture(line) ==
  IF line = "pull request #12" THEN "12" ELSE "unset"
\* capture of /(https:\/\/github\.com\/[^\/]+\/[^\/]+\/pull\/\d+)/
PrUrlCapture(line) ==
  IF line = "https://github.com/o/r/pull/12" THEN line ELSE "unset"

\* the capture of pattern `kind` on one line
Capture(kind, line) ==
  CASE kind = "branch" -> BranchCapture(line)
    [] kind = "commit" -> CommitCapture(line)
    [] kind = "prNumber" -> PrNumberCapture(line)
    [] kind = "prUrl" -> PrUrlCapture(line)

\* String.prototype.match on the whole output: the leftmost match
FirstCapture(out, kind) ==
  IF \E i \in 1..Len(out) : Capture(kind, out[i]) # "unset"
  THEN Capture(kind, out[CHOOSE i \in 1..Len(out) :
                           /\ Capture(kind, out[i]) # "unset"
                           /\ \A j \in 1..(i-1) : Capture(kind, out[j]) = "unset"])
  ELSE "unset"

\* containerOutput.includes(text), for the texts parseWorkflowResults looks for
OutputIncludes(out, text) == \E i \in 1..Len(out) : out[i] = text


\* one entry of the qualityChecks object
QualityEntry(out, commands, failures) ==
  IF \E c \in commands : OutputIncludes(out, c)
  THEN IF \E f \in failures : OutputIncludes(out, f) THEN "fail" ELSE "pass"
  ELSE "absent"

\* parseWorkflowResults: each field is assigned only when its pattern matched
ParseWorkflowResults(res, out) ==
  LET branch == FirstCapture(out, "branch")
      commit == FirstCapture(out, "commit")
      prNum == FirstCapture(out, "prNumber")
      prUrl == FirstCapture(out, "prUrl")
      checks ==
        [typecheck |-> QualityEntry(out, {"pnpm typecheck", "npm run typecheck"},
                                    {"typecheck failed", "Type checking failed"}),
         lint |-> QualityEntry(out, {"pnpm check", "pnpm lint"},
                               {"lint failed", "Linting failed"}),
         build |-> QualityEntry(out, {"pnpm build", "npm run build"},
                                {"build failed", "Build failed"})]
  IN [res EXCEPT
        !.branchName = IF branch # "unset" THEN branch ELSE @,
        !.commitHash = IF commit # "unset" THEN commit ELSE @,
        !.prNumber = IF prNum # "unset" THEN prNum ELSE @,
        !.prUrl = IF prUrl # "unset" THEN prUrl ELSE @,
        !.qualityChecks = IF checks # QualityUnset THEN checks ELSE @]

\* a variant of the next definition that also wants a branch name extracted
ShowProgressSettles_NeedsBranch(exitCode, res) ==
  IF exitCode = 0 /\ res.branchName # "unset" THEN "resolve" ELSE "reject"

\* showProgress, stream end: resolve or reject once exec.inspect() answered
ShowProgressSettles(exitCode, res) ==
  IF exitCode = 0 THEN "resolve" ELSE "reject"

(***************************************************************************)
(* execute: catch / finally                                                *)
(***************************************************************************)
\* the finally block of execute up to `await this.cleanupContainer(containerId)`
EnterFinally(how) ==
  /\ cleanupFunctions' = UnregisterCleanup(cleanupFunctions, "teardown")
  /\ hist' = [hist EXCEPT
                !.unregistered = @ + (Len(cleanupFunctions) - Len(cleanupFunctions')),
                !.tdStarts = @ + 1]
  /\ td' = [td EXCEPT !.fin = "inspect"]
  /\ outcome' = how
  /\ pc' = "teardown"

\* exec.inspect() answered: parse the captured output, then decide by exit code
ExecInspectReturns ==
  /\ ~proc.exited /\ pc = "execInspect"
  /\ \E fault \in Faults :
       IF fault
       THEN /\ ExecutionFails
            /\ docker' = [docker EXCEPT !.faults = @ + 1, !.calls = @ \cup {"logs"}]
            /\ stream' = [stream EXCEPT
                            !.timer = ClearInterval(@),
                            !.spinnerText = <<"Failed to get execution result">>,
                            !.events = Append(@, "settled")]
       ELSE LET parsed == ParseWorkflowResults(workflowResults, stream.output)
            IN /\ stream' = [stream EXCEPT
                               !.inspected = stream.exitCode,
                               !.spinnerText =
                                 IF stream.exitCode = 0
                                 THEN <<"Workflow completed successfully!">>
                                 ELSE <<"Workflow failed with exit code: ",
                                        stream.exitCode>>,
                               !.events = Append(@, "settled")]
               /\ IF ShowProgressSettles(stream.exitCode, parsed) = "resolve"
                  THEN /\ workflowResults' =
                            [parsed EXCEPT !.success = TRUE,
                                           !.endTimeSet = @ + 1,
                                           !.summaries = @ + 1]
                       /\ EnterFinally("resolve")
                       /\ UNCHANGED docker
                  ELSE /\ workflowResults' = parsed
                       /\ pc' = "logs"
                       /\ docker' = [docker EXCEPT !.calls = @ \cup {"logs"}]
                       /\ UNCHANGED <<outcome, cleanupFunctions, td, hist>>
  /\ UNCHANGED <<ini, cm, cl, sh, opts, env, config, request, issueNumber, github, isShuttingDown,
                 hostDirs, tempDockerDir, tempScriptDir, signals, proc>>

\* container.logs() answered (or failed): executeWorkflow rethrows, execute's
\* catch records the failure and shows the summary, then the finally block
LogsReturns ==
  /\ ~proc.exited /\ pc = "logs"
  /\ workflowResults' = [workflowResults EXCEPT !.success = FALSE,
                                                !.endTimeSet = @ + 1,
                                                !.error = TRUE,
                                                !.summaries = @ + 1]
  /\ EnterFinally("reject")
  /\ UNCHANGED <<ini, cm, cl, sh, opts, env, config, request, issueNumber, github, docker,
                 isShuttingDown, hostDirs, tempDockerDir, tempScriptDir, stream,
                 signals, proc>>

\* dispatchCommand returned and nothing is pending: the process ends with 0
ProcessEnd ==
  /\ ~proc.exited /\ pc = "returned" /\ ~isShuttingDown
  /\ ProcessExit(0, "normal", TRUE, td)
  /\ UNCHANGED <<ini, cm, cl, sh, opts, env, config, pc, request, issueNumber, workflowResults,
                 outcome, github, docker, cleanupFunctions, isShuttingDown, td,
                 hist, hostDirs, tempDockerDir, tempScriptDir, stream, signals>>

(***************************************************************************)
(* cleanupContainer, run by caller p                                       *)
(***************************************************************************)
\* where cleanupContainer goes once its Docker calls are over:
\* cleanupTempDirectories awaits fs.rm only for a directory it still knows
AfterDocker ==
  IF tempDockerDir = "none" /\ tempScriptDir = "none" THEN "done" ELSE "rmtemp"

\* a variant of the next definition that leaves alone a container that is
\* not running
AfterInspect_RunningOnly(fault, container) ==
  IF fault THEN AfterDocker
  ELSE IF container = "running" THEN "stop"
  ELSE "done"

\* what cleanupContainer does with the answer of container.inspect():
\* 404 returns at once; another error is reported with the manual-cleanup hint;
\* a running container is stopped first; otherwise it is removed
AfterInspect(fault, container) ==
  IF fault THEN AfterDocker
  ELSE IF container \notin {"created", "running", "exited"} THEN "done"
  ELSE IF container = "running" THEN "stop"
  ELSE "remove"

\* a variant of the next definition that reports nothing
CleanupFailureReport_Silent(op, fault) == "none"

\* how cleanupContainer reports a failed Docker call: a failed stop is caught
\* on the spot and logged as a warning; a failed inspect or remove (other than
\* 404) reaches the outer catch, which prints the `docker rm -f <id>` hint
CleanupFailureReport(op, fault) ==
  IF ~fault THEN "none" ELSE IF op = "stop" THEN "warning" ELSE "hint"

\* a variant of the next definition that gives up when the stop failed
AfterStop_GivesUp(fault) == IF fault THEN AfterDocker ELSE "remove"

\* container.remove({force: true}) is the call after stop, whether or not the
\* graceful stop succeeded
AfterStop(fault) == "remove"

(***************************************************************************)
(* CleanupManager: the registry and executeCleanup, for any cleanup        *)
(* functions.  A function is named by what it does when invoked: it        *)
(* resolves, throws an Error, returns a promise that rejects with an       *)
(* Error, or throws a value without a message (null).  "teardown" is the    *)
(* closure execute registers: cleanupContainer catches its own failures,   *)
(* so the closure resolves.                                                *)
(***************************************************************************)
Closures == {"resolves", "throws", "rejects", "throwsNull"}

\* the async callback of cleanupFunctions.map: try { await cleanup() }, and
\* catch reads error.message for the warning, which throws when the thrown
\* value is null or undefined
CleanupWrapper(f) ==
  CASE f \in {"resolves", "teardown"} ->
         [promise |-> "fulfilled", warned |-> FALSE]
    [] f \in {"throws", "rejects"} -> [promise |-> "fulfilled", warned |-> TRUE]
    [] OTHER -> [promise |-> "rejected", warned |-> FALSE]

\* Array.prototype.map over the registry: every function is invoked, in order
CleanupPromises(fns) == [i \in 1..Len(fns) |-> CleanupWrapper(fns[i])]

\* Promise.all, which rejects when one of the promises does
PromiseAll(promises) ==
  IF \E i \in 1..Len(promises) : promises[i].promise = "rejected"
  THEN "rejected" ELSE "fulfilled"
\* Promise.allSettled, which is fulfilled whatever the promises do
PromiseAllSettled(promises) == "fulfilled"

\* the promise of executeCleanup for the registry it was called with
ExecuteCleanupResult(fns) ==
  IF fns = <<>> THEN "fulfilled" ELSE PromiseAllSettled(CleanupPromises(fns))

\* a variant of the next definition that takes the failure branch
SignalHandlerExitCode_Fails(result) == 1
\* signalHandler after `await this.executeCleanup()`: process.exit(0) in the
\* try block, process.exit(1) in the catch
SignalHandlerExitCode(result) == IF result = "fulfilled" THEN 0 ELSE 1

\* cleanupContainer returned to its caller p, in the same turn of the event
\* loop.  The signal handler's executeCleanup settles and the handler calls
\* process.exit(0).  execute's finally block ends and execute settles: on
\* resolve dispatchCommand prints the success text and returns, on reject its
\* catch calls exitGracefully(1)
ExecuteSettles(tds) ==
  IF outcome = "resolve"
  THEN pc' = "returned" /\ UNCHANGED proc
  ELSE ExitGracefully(1, tds) /\ UNCHANGED pc
SignalCleanupDone(tds) ==
  /\ ProcessExit(SignalHandlerExitCode(ExecuteCleanupResult(<<"teardown">>)),
                 "signal", FALSE, tds)
  /\ UNCHANGED pc
CleanupContainerReturns(p, tds) ==
  IF tds[p] # "done" THEN UNCHANGED <<pc, proc>>
  ELSE IF p = "sig" THEN SignalCleanupDone(tds)
  ELSE ExecuteSettles(tds)

TdInspect(p) ==
  /\ ~proc.exited /\ td[p] = "inspect"
  /\ \E fault \in Faults :
       /\ td' = [td EXCEPT ![p] = AfterInspect(fault, docker.container)]
       /\ docker' = [docker EXCEPT !.faults = @ + (IF fault THEN 1 ELSE 0)]
       /\ hist' = [hist EXCEPT
                     !.removeCalls[p] = @ + (IF td'[p] = "remove" THEN 1 ELSE 0),
                     !.stopCalls[p] = @ + (IF td'[p] = "stop" THEN 1 ELSE 0),
                     !.running[p] = ~fault /\ docker.container = "running",
                     !.failed[p] = @ \cup (IF fault THEN {"inspect"} ELSE {}),
                     !.hints[p] = @ + (IF CleanupFailureReport("inspect", fault) = "hint"
                                       THEN 1 ELSE 0),
                     !.inspected[p] = IF fault THEN "error"
                                      ELSE IF ContainerExists THEN "found"
                                      ELSE "absent"]
  /\ CleanupContainerReturns(p, td')
  /\ UNCHANGED <<ini, cm, cl, sh, opts, env, config, request, issueNumber, workflowResults,
                 outcome, github, cleanupFunctions, isShuttingDown, hostDirs,
                 tempDockerDir, tempScriptDir, stream, signals>>

\* container.stop({t: 10}) answered
TdStop(p) ==
  /\ ~proc.exited /\ td[p] = "stop"
  /\ \E fault \in Faults :
       /\ td' = [td EXCEPT ![p] = AfterStop(fault)]
       /\ docker' = [docker EXCEPT
                       !.faults = @ + (IF fault THEN 1 ELSE 0),
                       !.container = IF ~fault /\ @ = "running" THEN "exited" ELSE @]
       /\ hist' = [hist EXCEPT
                     !.removeCalls[p] = @ + (IF td'[p] = "remove" THEN 1 ELSE 0),
                     !.failed[p] = @ \cup (IF fault THEN {"stop"} ELSE {}),
                     !.hints[p] = @ + (IF CleanupFailureReport("stop", fault) = "hint"
                                       THEN 1 ELSE 0)]
  /\ CleanupContainerReturns(p, td')
  /\ UNCHANGED <<ini, cm, cl, sh, opts, env, config, request, issueNumber, workflowResults,
                 outcome, github, cleanupFunctions, isShuttingDown, hostDirs,
                 tempDockerDir, tempScriptDir, stream, signals>>

\* container.remove({force: true}) answered
TdRemove(p) ==
  /\ ~proc.exited /\ td[p] = "remove"
  /\ \E fault \in Faults :
       /\ docker' = [docker EXCEPT
                       !.faults = @ + (IF fault THEN 1 ELSE 0),
                       !.container = IF ~fault /\ ContainerExists THEN "removed" ELSE @]
       /\ hist' = [hist EXCEPT
                     !.failed[p] = @ \cup (IF fault THEN {"remove"} ELSE {}),
                     !.hints[p] = @ + (IF CleanupFailureReport("remove", fault) = "hint"
                                       THEN 1 ELSE 0)]
  /\ td' = [td EXCEPT ![p] = AfterDocker]
  /\ CleanupContainerReturns(p, td')
  /\ UNCHANGED <<ini, cm, cl, sh, opts, env, config, request, issueNumber, workflowResults,
                 outcome, github, cleanupFunctions, isShuttingDown,
                 hostDirs, tempDockerDir, tempScriptDir, stream, signals>>

\* cleanupTempDirectories: fs.rm of the directories the executor still knows
TdRmTemp(p) ==
  /\ ~proc.exited /\ td[p] = "rmtemp"
  /\ hostDirs' = hostDirs \ {tempDockerDir, tempScriptDir}
  /\ tempDockerDir' = "none"
  /\ tempScriptDir' = "none"
  /\ td' = [td EXCEPT ![p] = "done"]
  /\ CleanupContainerReturns(p, td')
  /\ UNCHANGED <<ini, cm, cl, sh, opts, env, config, request, issueNumber, workflowResults,
                 outcome, github, docker, cleanupFunctions, isShuttingDown,
                 hist, stream, signals>>

(***************************************************************************)
(* init: ProjectDetector.createConfig and ConfigManager.merge              *)
(***************************************************************************)
\* JavaScript's `a || b` on leaves: undefined, null and '' are falsy
Falsy == {"undefined", "null", ""}
OrElse(v, d) == IF v \in Falsy THEN d ELSE v

\* createConfig(detected): project and github always, bot only with a
\* detected bot user; a missing githubProject gives null ids and {}
CreateConfig(d) ==
  LET gp == d["githubProject"]
      base ==
        [k \in {"project", "github"} |->
           IF k = "project"
           THEN Obj([f \in {"owner", "workingBranch"} |->
                       IF f = "owner" THEN d["owner"]
                       ELSE Leaf(OrElse(d["workingBranch"].v, "staging"))])
           ELSE Obj([f \in {"projectId", "statusOptions"} |->
                       IF f = "projectId"
                       THEN IF gp.kind = "object"
                            THEN Leaf(OrElse(gp.fields["id"].v, "null"))
                            ELSE Leaf("null")
                       ELSE IF gp.kind = "object"
                            THEN gp.fields["statusOptions"]
                            ELSE Obj(EmptyObject)])]
  IN IF d["botUsername"].v \in Falsy THEN base
     ELSE [k \in {"project", "github", "bot"} |->
             IF k = "bot"
             THEN Obj([f \in {"tokenEnvVar", "username"} |->
                         IF f = "username" THEN d["botUsername"]
                         ELSE Leaf("GITHUB_BOT_TOKEN")])
             ELSE base[k]]

\* does deepMerge assign result[key]: an object is merged into, a leaf is
\* copied unless it is undefined or the placeholder
DeepMergeAssigns(v) ==
  v.kind = "object" \/ v.v \notin {"undefined", "auto-detect"}

\* ConfigManager.deepMerge(target, source), for targets whose value under a
\* key that the source holds an object for is an object, null or missing
RECURSIVE DeepMerge(_, _)
DeepMerge(target, source) ==
  LET keys == DOMAIN target
              \cup {k \in DOMAIN source : DeepMergeAssigns(source[k])}
  IN [k \in keys |->
        IF k \notin DOMAIN source \/ ~DeepMergeAssigns(source[k]) THEN target[k]
        ELSE IF source[k].kind = "object"
        THEN Obj(DeepMerge(IF k \in DOMAIN target /\ target[k].kind = "object"
                           THEN target[k].fields ELSE EmptyObject,
                           source[k].fields))
        ELSE source[k]]

\* ConfigManager.merge called with a detected configuration: the current
\* configuration (the file's, or the default one) merged and saved
MergeCall ==
  /\ ini.phase = "start" /\ ini.via = "merge"
  /\ ini' = [ini EXCEPT !.phase = "saved",
                        !.saved = DeepMerge(ini.current, ini.detected)]
  /\ UNCHANGED <<cm, cl, sh, opts, env, config, pc, request, issueNumber,
                 workflowResults, outcome, github, docker, cleanupFunctions,
                 isShuttingDown, td, hist, hostDirs, tempDockerDir,
                 tempScriptDir, stream, signals, proc>>

\* initCommand: nothing is done when a configuration exists and --force is
\* not given; else the detected project becomes a configuration, which is
\* merged into the current one and saved
InitCommand ==
  /\ ini.phase = "start" /\ ini.via = "init"
  /\ IF ini.exists /\ ~ini.force
     THEN ini' = [ini EXCEPT !.phase = "skipped"]
     ELSE ini' = [ini EXCEPT
                    !.phase = "saved",
                    !.detected = CreateConfig(ini.project),
                    !.saved = DeepMerge(ini.current, CreateConfig(ini.project))]
  /\ UNCHANGED <<cm, cl, sh, opts, env, config, pc, request, issueNumber,
                 workflowResults, outcome, github, docker, cleanupFunctions,
                 isShuttingDown, td, hist, hostDirs, tempDockerDir,
                 tempScriptDir, stream, signals, proc>>

(***************************************************************************)
(* CleanupManager: calls of its methods in any order                       *)
(***************************************************************************)
\* CleanupManager.registerCleanup called
CmRegister ==
  /\ Len(cleanupFunctions) < MaxRegistered
  /\ \E f \in Closures : cleanupFunctions' = RegisterCleanup(cleanupFunctions, f)
  /\ cm' = [cm EXCEPT !.op = "registerCleanup"]
  /\ UNCHANGED <<ini, cl, sh, opts, env, config, pc, request, issueNumber,
                 workflowResults, outcome, github, docker, isShuttingDown, td,
                 hist, hostDirs, tempDockerDir, tempScriptDir, stream, signals,
                 proc>>

\* CleanupManager.unregisterCleanup called, with a registered function or not
CmUnregister ==
  /\ \E f \in Closures : cleanupFunctions' = UnregisterCleanup(cleanupFunctions, f)
  /\ cm' = [cm EXCEPT !.op = "unregisterCleanup"]
  /\ UNCHANGED <<ini, cl, sh, opts, env, config, pc, request, issueNumber,
                 workflowResults, outcome, github, docker, isShuttingDown, td,
                 hist, hostDirs, tempDockerDir, tempScriptDir, stream, signals,
                 proc>>

\* executeCleanup called: with an empty registry it returns at once, else it
\* invokes every function and awaits Promise.allSettled
CmExecuteCleanup ==
  /\ cm.result # "pending" /\ cm.calls < MaxCleanups
  /\ cm' = [op |-> "executeCleanup", calls |-> cm.calls + 1,
            invoked |-> [i \in 1..Len(CleanupPromises(cleanupFunctions)) |->
                           cleanupFunctions[i]],
            wrappers |-> <<>>, warnings |-> 0,
            result |-> IF cleanupFunctions = <<>> THEN "fulfilled" ELSE "pending"]
  /\ UNCHANGED <<ini, cl, sh, opts, env, config, pc, request, issueNumber,
                 workflowResults, outcome, github, docker, cleanupFunctions,
                 isShuttingDown, td, hist, hostDirs, tempDockerDir,
                 tempScriptDir, stream, signals, proc>>

\* every function of the call has settled: the warnings are logged and
\* executeCleanup's promise settles
CmCleanupSettles ==
  /\ cm.result = "pending"
  /\ LET promises == CleanupPromises(cm.invoked)
     IN cm' = [cm EXCEPT
                 !.op = "settle",
                 !.wrappers = promises,
                 !.warnings = Cardinality({i \in 1..Len(promises) :
                                             promises[i].warned}),
                 !.result = PromiseAllSettled(promises)]
  /\ UNCHANGED <<ini, cl, sh, opts, env, config, pc, request, issueNumber,
                 workflowResults, outcome, github, docker, cleanupFunctions,
                 isShuttingDown, td, hist, hostDirs, tempDockerDir,
                 tempScriptDir, stream, signals, proc>>

(***************************************************************************)
(* CleanupManager: the signal handler                                      *)
(***************************************************************************)
\* a variant of the next definition without the forced exit
SignalHandlerBranch_NoForce(shuttingDown) == "cleanup"

\* the first test of signalHandler
SignalHandlerBranch(shuttingDown) == IF shuttingDown THEN "force" ELSE "cleanup"

\* a variant of the next definition that starts nothing
ExecuteCleanup_None(fns) == {}

\* executeCleanup: the closures it starts; every registered one
ExecuteCleanup(fns) == {fns[i] : i \in 1..Len(fns)}

\* SIGINT, SIGTERM or SIGHUP delivered: signalHandler up to its first await.
\* With nothing registered executeCleanup returns at once and the handler
\* goes on to process.exit(0).  dispatchCommand's argument checks run in the
\* same turn of the event loop as the program start, before any handler can.
Interrupt ==
  /\ ~proc.exited /\ signals < MaxSignals
  /\ pc # "validate"
  /\ signals' = signals + 1
  /\ IF SignalHandlerBranch(isShuttingDown) = "force"
     THEN /\ ProcessExit(1, "force", FALSE, td)
          /\ UNCHANGED <<isShuttingDown, td, hist>>
     ELSE /\ isShuttingDown' = TRUE
          /\ IF "teardown" \in ExecuteCleanup(cleanupFunctions)
             THEN /\ td' = [td EXCEPT !.sig = "inspect"]
                  /\ hist' = [hist EXCEPT !.tdStarts = @ + 1, !.signalAt = pc]
                  /\ UNCHANGED proc
             ELSE /\ ProcessExit(
                       SignalHandlerExitCode(ExecuteCleanupResult(cleanupFunctions)),
                       "signal", FALSE, td)
                  /\ hist' = [hist EXCEPT !.signalAt = pc]
                  /\ UNCHANGED td
  /\ UNCHANGED <<ini, cm, cl, sh, opts, env, config, pc, request, issueNumber, workflowResults,
                 outcome, github, docker, cleanupFunctions, hostDirs,
                 tempDockerDir, tempScriptDir, stream>>

(***************************************************************************)
(* The environment: the Docker daemon and its other clients                *)
(***************************************************************************)
\* someone else removes the container (docker rm -f, a containers --clean run)
ExternalRemove ==
  /\ ~proc.exited /\ ContainerExists /\ ~docker.externalRemoved
  /\ docker' = [docker EXCEPT !.container = "removed", !.externalRemoved = TRUE]
  /\ UNCHANGED <<ini, cm, cl, sh, opts, env, config, pc, request, issueNumber, workflowResults,
                 outcome, github, cleanupFunctions, isShuttingDown, td, hist,
                 hostDirs, tempDockerDir, tempScriptDir, stream, signals, proc>>

\* the state of the container after the daemon served request `op`
DaemonEffect(op, container) ==
  CASE op = "create" /\ container = "none" -> "created"
    [] op = "start" /\ container = "created" -> "running"
    [] op = "stop" /\ container = "running" -> "exited"
    [] op = "remove" /\ container \in {"created", "running", "exited"} -> "removed"
    [] OTHER -> container

\* a request sent before the process exited is still served by the daemon
DaemonFinish ==
  /\ proc.exited
  /\ \E op \in proc.inflight :
       /\ docker' = [docker EXCEPT !.container = DaemonEffect(op, @)]
       /\ proc' = [proc EXCEPT !.inflight = @ \ {op}]
  /\ UNCHANGED <<ini, cm, cl, sh, opts, env, config, pc, request, issueNumber, workflowResults,
                 outcome, github, cleanupFunctions, isShuttingDown, td, hist,
                 hostDirs, tempDockerDir, tempScriptDir, stream, signals>>

(***************************************************************************)
(* The generated bootstrap script and the bash process that runs it        *)
(*                                                                         *)
(* A script is a sequence of commands [cmd, arg, form].  The form says how *)
(* the command stands in the script: "builtin" (set, export, echo to       *)
(* stderr: cannot fail), "plain" (a command on a line of its own),         *)
(* "orExit" (cmd || exit 1), "orTrue" (cmd || true), "orWarn"              *)
(* (cmd || echo Warning >&2), "test" (if [[ ... ]]; then exit 1; fi).      *)
(***************************************************************************)
\* CLAUDE.md is a sequence of pieces: a newline, a blank, a word, the end
\* marker, and the two halves of the start marker, cut inside its name so
\* that the halves make a start marker only when they are adjacent
TextPieces ==
  {"\n", " ", "a", "<!-- CONSTECH-", "WORKER-START -->",
   "<!-- CONSTECH-WORKER-END -->"}

\* does /<!--\s*CONSTECH-WORKER-START\s*-->/ match at the head of t
StartMarkerAtHead(t) ==
  Len(t) >= 2 /\ t[1] = "<!-- CONSTECH-" /\ t[2] = "WORKER-START -->"

\* a variant of the next definition that also strips a start marker left alone
RECURSIVE RemoveMarkedSpans_Partial(_)
RemoveMarkedSpans_Partial(t) ==
  IF t = <<>> THEN <<>>
  ELSE LET ends == {j \in 3..Len(t) : t[j] = "<!-- CONSTECH-WORKER-END -->"}
       IN IF StartMarkerAtHead(t)
          THEN LET j == IF ends = {} THEN 2
                        ELSE CHOOSE j \in ends : \A k \in ends : j <= k
               IN RemoveMarkedSpans_Partial(SubSeq(t, j + 1, Len(t)))
          ELSE <<Head(t)>> \o RemoveMarkedSpans_Partial(Tail(t))

\* content.replace(/START[\s\S]*?END/g, ''): left to right, each start marker
\* with an end marker after it goes, up to the first such end marker
RECURSIVE RemoveMarkedSpans(_)
RemoveMarkedSpans(t) ==
  IF t = <<>> THEN <<>>
  ELSE LET ends == {j \in 3..Len(t) : t[j] = "<!-- CONSTECH-WORKER-END -->"}
       IN IF StartMarkerAtHead(t) /\ ends # {}
          THEN LET j == CHOOSE j \in ends : \A k \in ends : j <= k
               IN RemoveMarkedSpans(SubSeq(t, j + 1, Len(t)))
          ELSE <<Head(t)>> \o RemoveMarkedSpans(Tail(t))

\* filtered.replace(/\n\s*\n\s*\n/g, '\n\n'): a match starts at a newline and,
\* \s* being greedy, runs to the last newline of the whitespace around it
RECURSIVE CollapseBlankLines(_)
CollapseBlankLines(t) ==
  IF t = <<>> THEN <<>>
  ELSE LET run == {i \in 1..Len(t) : \A k \in 1..i : t[k] \in WhiteSpace}
           nl == {i \in run : t[i] = "\n"}
       IN IF Head(t) = "\n" /\ Cardinality(nl) >= 3
          THEN LET last == CHOOSE i \in nl : \A k \in nl : k <= i
               IN <<"\n", "\n">> \o CollapseBlankLines(SubSeq(t, last + 1, Len(t)))
          ELSE <<Head(t)>> \o CollapseBlankLines(Tail(t))

\* a variant of the next definition without the final trim()
RemoveWorkerSections_NoTrim(content) ==
  CollapseBlankLines(RemoveMarkedSpans(content))

\* ClaudeMdParser.removeWorkerSections
RemoveWorkerSections(content) ==
  Trim(CollapseBlankLines(RemoveMarkedSpans(content)))

\* readClaudeInstructions: the file read and filtered, or the empty result
\* when fs.readFile fails with ENOENT
ReadClaudeInstructions(file, content) ==
  IF file = "missing"
  THEN [full |-> <<>>, filtered |-> <<>>, hasWorkerSections |-> FALSE]
  ELSE [full |-> content, filtered |-> RemoveWorkerSections(content),
        hasWorkerSections |-> content # RemoveWorkerSections(content)]

\* a variant of the next definition whose commands stand on lines of their own
GenerateInitCommands_Fatal(servers) ==
  IF servers = <<>> THEN <<>>
  ELSE <<[cmd |-> "echo Initializing", arg |-> "", form |-> "builtin"],
         [cmd |-> "cp mcp-config", arg |-> "", form |-> "plain"]>>
       \o [i \in 1..(2 * Len(servers)) |->
             IF i % 2 = 1
             THEN [cmd |-> "echo Verifying", arg |-> servers[(i + 1) \div 2],
                   form |-> "builtin"]
             ELSE [cmd |-> "node require", arg |-> servers[i \div 2],
                   form |-> "plain"]]

\* McpManager.generateInitCommands: nothing without an enabled server; else
\* an announcement, the copy of the configuration, and per server an
\* announcement and a require() probe (every server has a package name)
GenerateInitCommands(servers) ==
  IF servers = <<>> THEN <<>>
  ELSE <<[cmd |-> "echo Initializing", arg |-> "", form |-> "builtin"],
         [cmd |-> "cp mcp-config", arg |-> "", form |-> "orTrue"]>>
       \o [i \in 1..(2 * Len(servers)) |->
             IF i % 2 = 1
             THEN [cmd |-> "echo Verifying", arg |-> servers[(i + 1) \div 2],
                   form |-> "builtin"]
             ELSE [cmd |-> "node require", arg |-> servers[i \div 2],
                   form |-> "orWarn"]]

\* a variant of the next definition without the two assertions
VerifyCleanWorkspace_Unchecked ==
  <<[cmd |-> "git branch --show-current", arg |-> "", form |-> "plain"],
    [cmd |-> "git status --porcelain", arg |-> "", form |-> "plain"]>>

\* the "Verify clean workspace" lines of the script
VerifyCleanWorkspace ==
  <<[cmd |-> "git branch --show-current", arg |-> "", form |-> "plain"],
    [cmd |-> "branch is not the working branch", arg |-> "", form |-> "test"],
    [cmd |-> "git status --porcelain", arg |-> "", form |-> "plain"],
    [cmd |-> "status is not empty", arg |-> "", form |-> "test"]>>

\* config.project.workingBranch of the configurations of this model: the
\* schema's default
WorkingBranch == "staging"

\* the baseBranch dispatchCommand gives the executor: --base, else the
\* configured working branch
ExecutorBaseBranch(base) == IF base # "" THEN base ELSE WorkingBranch

\* the branch generateWorkflowScript writes into the script and passes to
\* generateSystemPrompt: this.config.project.workingBranch; the executor's
\* options.baseBranch is stored by the constructor and read nowhere
ScriptBranch(baseBranch) == WorkingBranch

\* generateWorkflowScript: the lines of the template, top to bottom
GenerateWorkflowScript(servers, branch) ==
  <<[cmd |-> "set -e", arg |-> "", form |-> "builtin"],
    [cmd |-> "cd", arg |-> "/workspace", form |-> "plain"],
    [cmd |-> "credential file is missing", arg |-> "", form |-> "test"],
    [cmd |-> "mkdir -p", arg |-> "/tmp/worker-shared", form |-> "plain"],
    [cmd |-> "WORK_DIR=", arg |-> "/tmp/worker-shared/workspace-", form |-> "plain"],
    [cmd |-> "mkdir -p", arg |-> "$WORK_DIR", form |-> "plain"],
    [cmd |-> "cd", arg |-> "$WORK_DIR", form |-> "plain"],
    [cmd |-> "git init", arg |-> "", form |-> "plain"],
    [cmd |-> "git config", arg |-> "user.name", form |-> "plain"],
    [cmd |-> "git config", arg |-> "user.email", form |-> "plain"],
    [cmd |-> "git config", arg |-> "credential.helper store", form |-> "plain"],
    [cmd |-> "mkdir -p", arg |-> "/tmp/git-credentials", form |-> "plain"],
    [cmd |-> "export", arg |-> "GIT_CONFIG_GLOBAL", form |-> "builtin"],
    [cmd |-> "git config", arg |-> "--global credential.helper", form |-> "plain"],
    [cmd |-> "echo >", arg |-> ".git-credentials", form |-> "plain"],
    [cmd |-> "git remote add", arg |-> "origin", form |-> "plain"],
    [cmd |-> "git fetch", arg |-> branch, form |-> "orExit"],
    [cmd |-> "git checkout", arg |-> branch, form |-> "orExit"]>>
  \o VerifyCleanWorkspace
  \o GenerateInitCommands(servers)
  \o <<[cmd |-> "export", arg |-> "ISSUE_NUMBER", form |-> "builtin"],
        [cmd |-> "export", arg |-> "PROMPT", form |-> "builtin"],
        [cmd |-> "cat >", arg |-> "/tmp/claude-prompt.txt", form |-> "plain"],
        [cmd |-> "claude", arg |-> "", form |-> "plain"]>>

\* the backtick character, which a TLA+ string cannot hold, as a piece
Backtick == "BACKTICK"
\* the pieces prompts are made of: a letter, the two quotes, the dollar sign,
\* the backtick, a line break and the text of the heredoc delimiter
PromptPieces ==
  {"a", "'", "\"", "$", Backtick, "\n", "CLAUDE_PROMPT_EOF"}

\* String.replace of every single quote by quote, backslash, quote, quote
RECURSIVE EscapeSingleQuotes(_)
EscapeSingleQuotes(s) ==
  IF s = <<>> THEN <<>>
  ELSE (IF Head(s) = "'" THEN <<"'", "\\", "'", "'">> ELSE <<Head(s)>>)
       \o EscapeSingleQuotes(Tail(s))

\* bash reading a word: inside single quotes everything up to the next quote
\* is literal, outside them a backslash makes the next character literal
RECURSIVE BashWord(_, _)
BashWord(s, inside) ==
  IF s = <<>> THEN <<>>
  ELSE IF inside
  THEN IF Head(s) = "'" THEN BashWord(Tail(s), FALSE)
       ELSE <<Head(s)>> \o BashWord(Tail(s), TRUE)
  ELSE IF Head(s) = "'" THEN BashWord(Tail(s), TRUE)
       ELSE IF Head(s) = "\\" /\ Len(s) >= 2
       THEN <<s[2]>> \o BashWord(Tail(Tail(s)), FALSE)
       ELSE <<Head(s)>> \o BashWord(Tail(s), FALSE)

\* what the echo of the escaped scriptContent between single quotes puts
\* into /tmp/workflow.sh for a stretch of scriptContent
DeliveredToContainer(text) ==
  BashWord(<<"'">> \o EscapeSingleQuotes(text) \o <<"'">>, FALSE)

\* generateSystemPrompt and generateWorkflowScript in a prompt-only run: the
\* task line holds the prompt, fixed text follows
FullPrompt(prompt) == <<"1. Task: ">> \o prompt \o <<"\n", "Begin now.">>

\* the text between `<< 'CLAUDE_PROMPT_EOF'` and the closing delimiter line
HeredocBody(prompt) == EscapeSingleQuotes(FullPrompt(prompt))

\* the lines of a text
RECURSIVE Lines(_)
Lines(s) ==
  IF \A i \in 1..Len(s) : s[i] # "\n" THEN <<s>>
  ELSE LET i == CHOOSE i \in 1..Len(s) :
                  s[i] = "\n" /\ \A j \in 1..(i - 1) : s[j] # "\n"
       IN <<SubSeq(s, 1, i - 1)>> \o Lines(SubSeq(s, i + 1, Len(s)))

\* lines joined, each one ended by a line break
RECURSIVE Unlines(_)
Unlines(ls) ==
  IF ls = <<>> THEN <<>> ELSE Head(ls) \o <<"\n">> \o Unlines(Tail(ls))

\* bash reading a heredoc whose delimiter is quoted: the lines up to the
\* first one that equals the delimiter go to the file unexpanded
HeredocEnd(ls) ==
  IF \E i \in 1..Len(ls) : ls[i] = <<"CLAUDE_PROMPT_EOF">>
  THEN CHOOSE i \in 1..Len(ls) :
         ls[i] = <<"CLAUDE_PROMPT_EOF">>
         /\ \A j \in 1..(i - 1) : ls[j] # <<"CLAUDE_PROMPT_EOF">>
  ELSE Len(ls) + 1
HeredocFile(body) ==
  LET ls == Lines(body) IN Unlines(SubSeq(ls, 1, HeredocEnd(ls) - 1))
\* whether lines of the body are left over, which bash then runs as commands
HeredocLeftover(body) == HeredocEnd(Lines(body)) <= Len(Lines(body))

\* bash reading `export PROMPT="<text>"`: a double quote ends the string, a
\* backtick starts a command substitution, a dollar sign before a name
\* character or another dollar sign is expanded
DoubleQuotedInterprets(text) ==
  \E i \in 1..Len(text) :
    \/ text[i] \in {"\"", Backtick}
    \/ /\ text[i] = "$" /\ i < Len(text)
       /\ text[i + 1] \in {"a", "$", "CLAUDE_PROMPT_EOF"}

\* "$(cat /tmp/claude-prompt.txt)": the file without its trailing line
\* breaks; echo then ends it with one
RECURSIVE StripTrailingNewlines(_)
StripTrailingNewlines(s) ==
  IF s # <<>> /\ s[Len(s)] = "\n"
  THEN StripTrailingNewlines(SubSeq(s, 1, Len(s) - 1)) ELSE s
EchoCat(file) == StripTrailingNewlines(file) \o <<"\n">>

\* the condition of an `if [[ ... ]]; then exit 1; fi` of the script
TestHolds(cmd, world) ==
  CASE cmd = "credential file is missing" -> ~world.credFile
    [] cmd = "branch is not the working branch" -> world.branch # "working"
    [] cmd = "status is not empty" -> world.dirty
    [] OTHER -> FALSE

\* what bash does once a command of the script has run: the exit code it ends
\* with, or NoExitCode when it goes on to the next line
BashAfter(step, failed, errexit, last) ==
  CASE step.form = "test" -> IF failed THEN 1 ELSE NoExitCode
    [] step.form = "orExit" -> IF failed THEN 1 ELSE NoExitCode
    [] step.form \in {"orTrue", "orWarn"} -> NoExitCode
    [] OTHER -> IF failed /\ (errexit \/ last) THEN 1
                ELSE IF last THEN 0
                ELSE NoExitCode

\* executeWorkflow wrote the script: generateWorkflowScript reads CLAUDE.md,
\* filters it, and renders the template with the enabled auxiliary tools
ShGenerate ==
  /\ sh.script = <<>>
  /\ sh' = [sh EXCEPT
              !.read = ReadClaudeInstructions(sh.claudeFile, sh.claudeMd),
              !.instructions =
                ReadClaudeInstructions(sh.claudeFile, sh.claudeMd).filtered,
              !.baseBranch = ExecutorBaseBranch(sh.base),
              !.deliveredPrompt = DeliveredToContainer(sh.prompt),
              !.deliveredBody = DeliveredToContainer(HeredocBody(sh.prompt)),
              !.promptBranch = ScriptBranch(ExecutorBaseBranch(sh.base)),
              !.script = GenerateWorkflowScript(
                           GetEnabledServers(sh.mcpServers),
                           ScriptBranch(ExecutorBaseBranch(sh.base)))]
  /\ UNCHANGED <<ini, cm, cl, opts, env, config, pc, request, issueNumber, workflowResults,
                 outcome, github, docker, cleanupFunctions, isShuttingDown, td,
                 hist, hostDirs, tempDockerDir, tempScriptDir, stream, signals,
                 proc>>

\* bash runs the next line of the script: a command fails or not, a test reads
\* the workspace as it is
ShRun ==
  /\ sh.script # <<>> /\ sh.exit = NoExitCode
  /\ LET i == Len(sh.ran) + 1
         step == sh.script[i]
     IN \E failed \in BOOLEAN :
          /\ (step.form = "builtin" => ~failed)
          /\ (step.form = "test" => failed = TestHolds(step.cmd, sh.world))
          /\ sh' = [sh EXCEPT
                      !.ran = Append(@, [cmd |-> step.cmd, arg |-> step.arg,
                                         form |-> step.form, failed |-> failed]),
                      !.errexit = @ \/ step.cmd = "set -e",
                      !.interpreted =
                        \/ @
                        \/ /\ step.cmd = "export" /\ step.arg = "PROMPT"
                           /\ DoubleQuotedInterprets(sh.deliveredPrompt)
                        \/ /\ step.cmd = "cat >" /\ ~failed
                           /\ HeredocLeftover(sh.deliveredBody),
                      !.promptFile =
                        IF step.cmd = "cat >" /\ ~failed
                        THEN HeredocFile(sh.deliveredBody) ELSE @,
                      !.piped =
                        IF step.cmd = "claude" THEN EchoCat(sh.promptFile)
                        ELSE @,
                      !.exit = BashAfter(step, failed, sh.errexit,
                                         i = Len(sh.script))]
  /\ UNCHANGED <<ini, cm, cl, opts, env, config, pc, request, issueNumber, workflowResults,
                 outcome, github, docker, cleanupFunctions, isShuttingDown, td,
                 hist, hostDirs, tempDockerDir, tempScriptDir, stream, signals,
                 proc>>

(***************************************************************************)
(* containers --clean: cleanupOrphanedContainers                           *)
(***************************************************************************)
\* the filter on the listed containers
IsWorkerContainer(info) ==
  \/ info.nameMatch
  \/ info.image = "constech"
  \/ info.image = "node" /\ info.mount

\* a variant of the next definition that does not look at --force
ContainerPlan_IgnoresForce(info, force) ==
  IF info.state = "running" THEN "stop" ELSE "remove"

\* the loop body up to its first await: skip a running container without
\* --force, stop a running one with it, remove any other
ContainerPlan(info, force) ==
  IF info.state = "running" /\ ~force THEN "skip"
  ELSE IF info.state = "running" THEN "stop"
  ELSE "remove"

\* the for loop from worker container i on, up to its next await or, past the
\* last container, the summary
RECURSIVE ProcessFrom(_, _)
ProcessFrom(c, i) ==
  IF i > Len(c.workers) THEN [c EXCEPT !.phase = "done", !.at = 0]
  ELSE LET plan == ContainerPlan(c.workers[i], c.force)
       IN IF plan = "skip"
          THEN ProcessFrom([c EXCEPT !.skipped = @ + 1,
                                     !.outcome = Append(@, "skipped")], i + 1)
          ELSE [c EXCEPT !.phase = plan, !.at = i,
                         !.calls = @ \cup {[i |-> i, op |-> plan]}]

\* docker.listContainers answered: a failure is rethrown; with no worker
\* container the function returns; else the loop starts
ClListReturns ==
  /\ cl.phase = "list"
  /\ \E ok \in BOOLEAN :
       cl' = IF ~ok THEN [cl EXCEPT !.phase = "threw"]
             ELSE ProcessFrom(
                    [cl EXCEPT !.workers = SelectSeq(cl.listed, IsWorkerContainer)],
                    1)
  /\ UNCHANGED <<ini, cm, sh, opts, env, config, pc, request, issueNumber, workflowResults,
                 outcome, github, docker, cleanupFunctions, isShuttingDown, td,
                 hist, hostDirs, tempDockerDir, tempScriptDir, stream, signals,
                 proc>>

\* container.stop({t: 5}) answered: a failure is caught and counted, and the
\* loop goes on; else container.remove is called
ClStopReturns ==
  /\ cl.phase = "stop"
  /\ \E fault \in BOOLEAN :
       cl' = IF fault
             THEN ProcessFrom([cl EXCEPT !.failed = @ + 1,
                                         !.outcome = Append(@, "failed")],
                              cl.at + 1)
             ELSE [cl EXCEPT !.phase = "remove",
                             !.calls = @ \cup {[i |-> cl.at, op |-> "remove"]}]
  /\ UNCHANGED <<ini, cm, sh, opts, env, config, pc, request, issueNumber, workflowResults,
                 outcome, github, docker, cleanupFunctions, isShuttingDown, td,
                 hist, hostDirs, tempDockerDir, tempScriptDir, stream, signals,
                 proc>>

\* container.remove({force: true}) answered: counted as cleaned or as failed,
\* and the loop goes on
ClRemoveReturns ==
  /\ cl.phase = "remove"
  /\ \E fault \in BOOLEAN :
       cl' = ProcessFrom(
               IF fault
               THEN [cl EXCEPT !.failed = @ + 1, !.outcome = Append(@, "failed")]
               ELSE [cl EXCEPT !.cleaned = @ + 1,
                               !.outcome = Append(@, "cleaned")],
               cl.at + 1)
  /\ UNCHANGED <<ini, cm, sh, opts, env, config, pc, request, issueNumber, workflowResults,
                 outcome, github, docker, cleanupFunctions, isShuttingDown, td,
                 hist, hostDirs, tempDockerDir, tempScriptDir, stream, signals,
                 proc>>

(***************************************************************************)
(* Specifications                                                          *)
(***************************************************************************)
Dispatch == DispatchValidate \/ DispatchRun

IssuePhase ==
  \/ GetIssueReturns \/ CreateIssueReturns \/ AddToProjectReturns
  \/ StatusReadyReturns \/ SetStatusReturns

PreparePhase == ImageReturns \/ McpConfigReturns \/ CreateContainerReturns

ExecutePhaseSteps ==
  \/ StartReturns \/ StartInspectReturns \/ ScriptWritten \/ ExecReturns
  \/ StreamData \/ StreamEnd \/ StreamError \/ ExecInspectReturns
  \/ LogsReturns \/ ProcessEnd

Teardown ==
  \E p \in Paths : TdInspect(p) \/ TdStop(p) \/ TdRemove(p) \/ TdRmTemp(p)

Next ==
  \/ Dispatch \/ IssuePhase \/ PreparePhase \/ ExecutePhaseSteps \/ Teardown
  \/ Interrupt \/ ExternalRemove \/ DaemonFinish

\* every run of dispatch, with operator interrupts and other Docker clients
Spec == Init /\ [][Next]_vars

\* the argument handling of dispatch, up to the call of execute
InitArgs == InitWith(ArgOptions, ArgEnvs, RunPlans, {NoShell})
NextArgs == Dispatch \/ ProcessEnd \/ Interrupt
SpecArgs == InitArgs /\ [][NextArgs]_vars

\* every run of dispatch over valid and invalid command lines, configurations
\* that fail to load or to validate, --force, --dry-run and a missing token
ExitOptions ==
  [issue : {Undef, <<"4">>}, prompt : {Undef, PromptPlease},
   createIssue : BOOLEAN, force : BOOLEAN, dryRun : BOOLEAN]
ExitEnvs ==
  [loads : BOOLEAN, valid : BOOLEAN, token : BOOLEAN, project : {"full"},
   debug : {FALSE}, qualityChecks : {DefaultQualityChecks},
   mcpServers : {[github |-> TRUE, semgrep |-> FALSE, ref |-> FALSE]}]
InitExit == InitWith(ExitOptions, ExitEnvs, RunPlans, {NoShell})
SpecExit == InitExit /\ [][Next]_vars

\* every `containers --clean` run over the listings of up to MaxContainers
\* containers, with and without --force, any Docker request failing
InitClean ==
  /\ InitHost(ParseOptions, ParseEnvs, RunPlans, {NoShell})
  /\ cl \in CleanRuns /\ ini = NoInit
NextClean == ClListReturns \/ ClStopReturns \/ ClRemoveReturns
SpecClean == InitClean /\ [][NextClean]_vars

\* undisturbed runs that create the issue from a prompt
InitTitle == InitWith(TitleOptions, TitleEnvs, RunPlans, {NoShell})
NextTitle ==
  \/ Dispatch
  \/ CreateIssueReturns \/ AddToProjectReturns \/ StatusReadyReturns
  \/ SetStatusReturns
  \/ ImageReturns \/ CreateContainerReturns \/ ExecutePhaseSteps \/ Teardown
SpecTitle == InitTitle /\ [][NextTitle]_vars

\* undisturbed prompt-only runs over every output the agent may print
InitParse == InitWith(ParseOptions, ParseEnvs, ParsePlans, {NoShell})
NextParse ==
  \/ Dispatch \/ ImageReturns \/ CreateContainerReturns \/ ExecutePhaseSteps
  \/ Teardown
SpecParse == InitParse /\ [][NextParse]_vars

\* undisturbed prompt-only runs of two configurations over every output
\* about quality checks
InitQuality ==
  InitWith(ParseOptions,
           [loads : {TRUE}, valid : {TRUE}, token : {TRUE}, project : {"none"},
            debug : {FALSE}, qualityChecks : {DefaultQualityChecks, NpmQualityChecks},
            mcpServers : {[github |-> FALSE, semgrep |-> FALSE, ref |-> FALSE]}],
           QualityPlans, {NoShell})
SpecQuality == InitQuality /\ [][NextParse]_vars

\* undisturbed prompt-only runs with the progress timer firing, with and
\* without DEBUG
InitProgress ==
  InitWith(ParseOptions,
           [loads : {TRUE}, valid : {TRUE}, token : {TRUE}, project : {"none"},
            debug : BOOLEAN, qualityChecks : {DefaultQualityChecks},
            mcpServers : {[github |-> FALSE, semgrep |-> FALSE, ref |-> FALSE]}],
           ParsePlans, {NoShell})
NextProgress == NextParse \/ ProgressTick
SpecProgress == InitProgress /\ [][NextProgress]_vars

\* prompt-only runs with interrupts, other Docker clients and failing
\* requests, in which every request the program has sent is answered and
\* every stream ends or fails
InitLive ==
  InitWith(ParseOptions,
           [loads : {TRUE}, valid : {TRUE}, token : {TRUE}, project : {"none"},
            debug : {FALSE}, qualityChecks : {DefaultQualityChecks},
            mcpServers : {[github |-> FALSE, semgrep |-> FALSE, ref |-> FALSE],
                          [github |-> TRUE, semgrep |-> FALSE, ref |-> TRUE]}],
           RunPlans, {NoShell})
NextLive ==
  \/ Dispatch \/ PreparePhase \/ ExecutePhaseSteps \/ Teardown
  \/ Interrupt \/ ExternalRemove \/ DaemonFinish
SpecLive ==
  /\ InitLive /\ [][NextLive]_vars
  /\ WF_vars(Dispatch) /\ WF_vars(PreparePhase)
  /\ WF_vars(ExecutePhaseSteps) /\ WF_vars(Teardown)

\* the CleanupManager alone: registrations, unregistrations and
\* executeCleanup calls in any order, with functions that resolve or fail
InitRegistry == InitWith(ParseOptions, ParseEnvs, RunPlans, {NoShell})
NextRegistry ==
  CmRegister \/ CmUnregister \/ CmExecuteCleanup \/ CmCleanupSettles
SpecRegistry == InitRegistry /\ [][NextRegistry]_vars

\* the configurations `init` finds: one with every field set, one with
\* placeholders and null ids
CurrentConfigs ==
  {[k \in {"project", "github", "bot", "workflow"} |->
      CASE k = "project" -> Obj([f \in {"owner", "workingBranch"} |-> Leaf(o)])
        [] k = "github" ->
             Obj([f \in {"projectId", "statusOptions"} |->
                    IF f = "projectId" THEN Leaf(id)
                    ELSE Obj([g \in {"backlog"} |-> Leaf("B1")])])
        [] k = "bot" -> Obj([f \in {"tokenEnvVar", "username"} |-> Leaf("bot1")])
        [] OTHER -> Obj([f \in {"packageManager"} |-> Leaf("pnpm")])] :
     o \in {"auto-detect", "o1"}, id \in {"null", "P1"}}

\* what detection may find for a leaf: nothing, null, the placeholder, a value
DetectedLeaves == {"undefined", "null", "auto-detect", "new"}

\* the partial configurations handed to merge
DetectedConfigs ==
  {[k \in ks |->
      IF k = "project"
      THEN Obj([f \in {"owner"} |-> Leaf(o)])
      ELSE Obj([f \in {"projectId", "statusOptions"} |->
                  IF f = "projectId" THEN Leaf(id) ELSE so])] :
     ks \in SUBSET {"project", "github"}, o \in DetectedLeaves,
     id \in DetectedLeaves,
     so \in {Obj(EmptyObject), Obj([g \in {"backlog"} |-> Leaf("new")])}}

\* the projects detect() may return
DetectedProjects ==
  {[k \in {"owner", "workingBranch", "githubProject", "botUsername"} |->
      CASE k = "owner" -> Leaf("o2")
        [] k = "workingBranch" -> Leaf(wb)
        [] k = "githubProject" -> gp
        [] OTHER -> Leaf(bot)] :
     wb \in {"undefined", "dev"}, bot \in {"undefined", "bot2"},
     gp \in {Leaf("undefined"),
              Obj([f \in {"id", "statusOptions"} |->
                     IF f = "id" THEN Leaf("P2")
                     ELSE Obj([g \in {"backlog"} |-> Leaf("B2")])])}}

\* `init` runs and merge calls over these configurations
InitRuns ==
  {[NoInit EXCEPT !.phase = "start", !.via = "merge", !.exists = e,
                  !.current = c, !.detected = d] :
     e \in BOOLEAN, c \in CurrentConfigs, d \in DetectedConfigs}
  \cup {[NoInit EXCEPT !.phase = "start", !.via = "init", !.exists = e,
                       !.force = f, !.current = c, !.project = dp] :
          e \in BOOLEAN, f \in BOOLEAN, c \in CurrentConfigs,
          dp \in DetectedProjects}
InitInit ==
  /\ InitHost(ParseOptions, ParseEnvs, RunPlans, {NoShell})
  /\ cl = NoCleanup /\ ini \in InitRuns
NextInit == MergeCall \/ InitCommand
SpecInit == InitInit /\ [][NextInit]_vars

\* container preparation and script generation with every choice of
\* auxiliary tools
InitMcp ==
  /\ InitWith(ParseOptions,
              [loads : {TRUE}, valid : {TRUE}, token : {TRUE}, project : {"none"},
               debug : {FALSE}, qualityChecks : {DefaultQualityChecks},
   mcpServers : [github : BOOLEAN, semgrep : BOOLEAN, ref : BOOLEAN]],
              RunPlans,
              {[NoShell EXCEPT !.mcpServers = m] :
                 m \in [github : BOOLEAN, semgrep : BOOLEAN, ref : BOOLEAN]})
  /\ sh.mcpServers = env.mcpServers
NextMcp == Dispatch \/ PreparePhase \/ ShGenerate
SpecMcp == InitMcp /\ [][NextMcp]_vars

\* preparation, start and script of a run, on the host and in the container
NextRepo ==
  \/ Dispatch \/ PreparePhase \/ ShGenerate
  \/ StartReturns \/ StartInspectReturns \/ ScriptWritten \/ ShRun
SpecRepo == InitMcp /\ [][NextRepo]_vars

\* every run of the generated script: which auxiliary tools are enabled, what
\* the container holds, which commands fail
InitScript ==
  InitWith(ParseOptions, ParseEnvs, RunPlans,
           [mcpServers : [github : BOOLEAN, semgrep : BOOLEAN, ref : BOOLEAN],
            world : [credFile : BOOLEAN, branch : {"working", "other"},
                     dirty : BOOLEAN],
            claudeFile : {"found"}, claudeMd : {<<>>}, instructions : {<<>>},
            read : {[full |-> <<>>, filtered |-> <<>>,
                     hasWorkerSections |-> FALSE]},
            base : {"", "main"}, baseBranch : {""}, promptBranch : {""},
            prompt : {<<>>}, deliveredPrompt : {<<>>}, deliveredBody : {<<>>},
            promptFile : {<<>>}, piped : {<<>>}, interpreted : {FALSE},
            script : {<<>>}, ran : {<<>>}, errexit : {FALSE},
            exit : {NoExitCode}])
NextScript == ShGenerate \/ ShRun
SpecScript == InitScript /\ [][NextScript]_vars

\* the generated script run on every prompt of up to MaxPromptLen pieces,
\* any command failing
InitPrompt ==
  InitWith(ParseOptions, ParseEnvs, RunPlans,
           {[NoShell EXCEPT !.prompt = t] :
              t \in UNION {[1..n -> PromptPieces] : n \in 0..MaxPromptLen}})
SpecPrompt == InitPrompt /\ [][NextScript]_vars

\* the instruction filter alone: every CLAUDE.md of up to MaxTextLen pieces
InitFilter ==
  InitWith(ParseOptions, ParseEnvs, RunPlans,
           {[NoShell EXCEPT !.claudeMd = t] :
              t \in UNION {[1..n -> TextPieces] : n \in 0..MaxTextLen}}
           \cup {[NoShell EXCEPT !.claudeFile = "missing"]})
NextFilter == ShGenerate
SpecFilter == InitFilter /\ [][NextFilter]_vars

(***************************************************************************)
(* Properties of the interrupt and teardown paths (under Spec)             *)
(***************************************************************************)
\* C1 (as the code has it): when executeWorkflow has thrown after the container
\* was created, execute's finally block has called container.remove at most
\* once by the time execute rejects -- exactly once when its own
\* container.inspect() found the container, not at all when inspect answered
\* 404 or failed -- and has taken the teardown closure out of the registry
\* exactly once; once the closure is unregistered an interrupt starts no
\* teardown.
C1_FinallyTeardown ==
  /\ [](hist.removeCalls.fin <= 1 /\ hist.unregistered <= 1)
  /\ []((workflowResults.error /\ td.fin = "done") =>
          /\ hist.removeCalls.fin = (IF hist.inspected.fin = "found" THEN 1 ELSE 0)
          /\ hist.unregistered = 1
          /\ cleanupFunctions = <<>>)
  /\ [][(signals' = signals + 1 /\ hist.unregistered >= 1) => td'.sig = td.sig]_vars

\* C1 as stated: a run whose executeWorkflow threw has called container.remove
\* exactly once from execute when the finally block is through
C1_RemoveExactlyOnce ==
  (workflowResults.error /\ td.fin = "done") => hist.removeCalls.fin = 1

\* a failed run whose finally block removed the container and unregistered the
\* closure before execute rejected and dispatch exited with 1
C1_Witness ==
  /\ workflowResults.error /\ td.fin = "done"
  /\ hist.removeCalls.fin = 1 /\ hist.unregistered = 1 /\ hist.tdStarts = 1
  /\ docker.container = "removed"
  /\ proc.exited /\ proc.exitVia = "graceful" /\ proc.exitCode = 1

\* C2 (as the code has it): an interrupt that arrives while the exec stream is
\* consumed makes the signal handler start the registered teardown; if no
\* second interrupt arrives and no Docker request fails, the container is
\* removed or already absent when the process exits.
C2_InterruptWhileExecuting ==
  hist.signalAt = "streaming" =>
    /\ td.sig # "idle"
    /\ (proc.exited /\ signals = 1 /\ docker.faults = 0) => ~ContainerExists

\* C2 as stated: after an interrupt during the exec stream the container is
\* gone once the process has exited and the daemon has served what was sent
C2_RemovedBeforeExit ==
  (hist.signalAt = "streaming" /\ proc.exited /\ proc.inflight = {})
    => ~ContainerExists

\* one interrupt during the exec stream, the handler's teardown removed the
\* container, and the handler exited
C2_Witness ==
  /\ hist.signalAt = "streaming" /\ signals = 1 /\ docker.faults = 0
  /\ proc.exited /\ proc.exitVia = "signal"
  /\ hist.removeCalls.sig = 1 /\ docker.container = "removed"

\* C3 as stated, read in the code's favour (no Docker request fails, nobody
\* else touches the container): cleanupContainer is started at most once for
\* the run's container, over the signal-handler path and the finally path
C3_TeardownStartedAtMostOnce ==
  (docker.faults = 0 /\ ~docker.externalRemoved) => hist.tdStarts <= 1

\* C4 as stated, read in the code's favour (at most one interrupt, no Docker
\* request fails, every request sent before the exit has been served): once
\* the process has exited the run's container does not exist
C4_NoContainerAfterExit ==
  (proc.exited /\ proc.inflight = {} /\ signals <= 1 /\ docker.faults = 0)
    => ~ContainerExists

\* C5: an interrupt that arrives while isShuttingDown is set makes the process
\* exit at once with code 1, wherever the teardown in flight stands; the
\* handler takes that forced exit only from the second interrupt on, and after
\* the first interrupt alone the handler exits with code 0 and only once the
\* cleanups it started have settled.
C5_SecondInterruptForcesExit ==
  /\ [][(signals' = signals + 1 /\ isShuttingDown) =>
          (proc'.exited /\ proc'.exitCode = 1 /\ proc'.exitVia = "force"
           /\ td' = td)]_vars
  /\ [](proc.exitVia = "force" => signals >= 2)
  /\ []((proc.exitVia = "signal" /\ signals = 1) =>
          (proc.exitCode = 0 /\ td.sig \in {"idle", "done"}))

\* a second interrupt ended the process with code 1 while the teardown the
\* first one started was still in flight
C5_Witness ==
  /\ proc.exited /\ proc.exitVia = "force" /\ proc.exitCode = 1 /\ signals = 2
  /\ td.sig \in {"inspect", "stop", "remove", "rmtemp"}

\* C10: a failure inside addIssueToProject or updateProjectItemStatus stays
\* inside the call: the issue phase goes on, execute rejects only after it has
\* asked for the container image, and success is true exactly when the exec's
\* exit code is 0, as in a run where the call succeeded.
C10_BoardFailureContained ==
  github.boardFailed =>
    /\ (pc \in {"addToProject", "statusReady", "setStatus"} => outcome = "pending")
    /\ (outcome = "reject" => "image" \in docker.calls)
    /\ (outcome # "pending" => (workflowResults.success <=> stream.inspected = 0))
    /\ (workflowResults.success => stream.inspected = 0)

\* a run whose board call failed and whose workflow succeeded
C10_Witness ==
  /\ github.boardFailed /\ outcome = "resolve" /\ workflowResults.success
  /\ "image" \in docker.calls

\* C11: when createIssue was requested and github.createIssue failed, execute
\* has rejected at that call: no project-board or status request was sent, no
\* Docker request was sent, no container exists, nothing was registered, no
\* teardown ran, and dispatch exited with 1.
C11_CreationFailureIsFatal ==
  github.createFailed =>
    /\ outcome = "reject" /\ pc = "createIssue"
    /\ github.calls = {"createIssue"}
    /\ ~workflowResults.issueCreated /\ issueNumber = UndefNum
    /\ docker.calls = {} /\ docker.container = "none"
    /\ cleanupFunctions = <<>> /\ hist.tdStarts = 0
    /\ proc.exited /\ proc.exitCode = 1 /\ proc.exitVia = "graceful"

\* a run with --create-issue whose issue creation failed
C11_Witness ==
  /\ request.createIssue /\ github.createFailed
  /\ outcome = "reject" /\ proc.exited /\ docker.calls = {}

\* C12: when the request carries an issue number and getIssue failed, execute
\* does not reject there: issueTitle stays unset and the run goes on to the
\* status transition when the project board is configured, else to the
\* container image, as it does with a fetched title.
C12_FetchFailureIsNotFatal ==
  "getIssue" \in github.calls =>
    /\ (pc = "getIssue" => outcome = "pending")
    /\ workflowResults.issueTitle \in {Undef, FetchedTitle}
    /\ (pc # "getIssue" =>
          IF config.project = "full"
          THEN "setStatus" \in github.calls
          ELSE "image" \in docker.calls)

\* a run whose title fetch failed and that went on to succeed
C12_Witness ==
  /\ "getIssue" \in github.calls /\ pc # "getIssue"
  /\ workflowResults.issueTitle = Undef
  /\ "setStatus" \in github.calls /\ "createContainer" \in docker.calls
  /\ workflowResults.success

\* C13: once execute has settled (it rejected before its try block, or its
\* finally block's teardown returned), endTime was set exactly once and the
\* terminal outcome was assigned: success on resolve, the error message and
\* success = false on reject.
C13_FinalizedExactlyOnce ==
  (outcome # "pending" /\ td.fin \in {"idle", "done"}) =>
    /\ workflowResults.endTimeSet = 1
    /\ (outcome = "resolve" => workflowResults.success)
    /\ (outcome = "reject" =>
          workflowResults.error /\ ~workflowResults.success)

\* C14: on a fatal failure the teardown comes first, then the summary with
\* success = false and the error message, then the exit with a nonzero code:
\* a failure summary is on screen only once the teardown has returned, and a
\* run that dispatchCommand's catch ended has shown that summary.
C14_TeardownThenSummaryThenExit ==
  /\ (workflowResults.summaries > 0 /\ ~workflowResults.success =>
        td.fin = "done")
  /\ (outcome = "reject" /\ proc.exited /\ proc.exitVia = "graceful" =>
        /\ workflowResults.summaries = 1
        /\ workflowResults.error /\ ~workflowResults.success
        /\ hist.tdStarts > 0
        /\ proc.exitCode # 0)

\* C15 as stated: the summary is displayed before any teardown starts.
C15_SummaryBeforeAnyTeardown ==
  hist.tdStarts > 0 => workflowResults.summaries = 1

\* C15, amended: the main flow of a run goes through issue resolution, status
\* setting, container preparation, execution, result parsing, summary and its
\* own teardown in that order.  While a GitHub call is awaited no Docker
\* request has been sent; once one has been sent the issue was fetched or
\* created as the request asks; while the process lives no container exists
\* before container.start is requested; before the finally block no summary is shown; a success
\* summary comes after the result parsing; the finally block's teardown
\* starts after the one summary; and execute settles after a container was
\* created only when that teardown has returned.
C15_RunOrder ==
  /\ (GithubCallAt(pc) # {} => docker.calls = {} /\ docker.container = "none")
  /\ (docker.calls # {} =>
        /\ (TruthyNum(request.issueNumber) /\ ~request.createIssue =>
              "getIssue" \in github.calls)
        /\ (request.createIssue /\ TruthyStr(request.prompt) =>
              "createIssue" \in github.calls /\ workflowResults.issueCreated))
  /\ (~proc.exited /\ "start" \notin docker.calls => docker.container = "none")
  /\ (pc \notin {"teardown", "returned"} =>
        workflowResults.summaries = 0 /\ td.fin = "idle")
  /\ (workflowResults.summaries > 0 /\ workflowResults.success =>
        stream.inspected = 0)
  /\ (td.fin # "idle" => workflowResults.summaries = 1)
  /\ (pc = "returned" => td.fin = "done")
  /\ (proc.exitVia = "graceful" /\ "start" \in docker.calls => td.fin = "done")

\* a run that created its issue and its container and returned after teardown
C15_Witness ==
  /\ pc = "returned" /\ td.fin = "done" /\ hist.tdStarts = 1
  /\ "createIssue" \in github.calls /\ "setStatus" \in github.calls
  /\ workflowResults.summaries = 1 /\ stream.inspected = 0
  /\ docker.container = "removed"

\* C16: once execute has settled, on success or on failure, no temporary
\* directory the run created (Dockerfile, MCP configuration, script) is left
\* on the host.
C16_NoTempDirectoryLeft ==
  (outcome # "pending" /\ td.fin \in {"idle", "done"}) => hostDirs = {}

\* C17 as stated: every failure of inspect, stop or remove inside
\* cleanupContainer is reported with the manual-cleanup hint.
C17_EveryFailureGivesHint ==
  \A p \in Paths : hist.failed[p] # {} => hist.hints[p] > 0

\* C17, amended: cleanupContainer never rejects, so a run whose execution
\* succeeded still resolves when its teardown failed; a failed inspect or
\* remove is reported once with the manual-cleanup hint and a failed stop is
\* not; stop is requested only for a container the inspect saw running; and
\* after a stop, failed or not, the forced remove is requested.
C17_CleanupNeverThrows ==
  /\ (workflowResults.success /\ td.fin = "done" /\ ~proc.exited =>
        outcome = "resolve" /\ pc = "returned")
  /\ \A p \in Paths :
       /\ hist.hints[p] =
            (IF hist.failed[p] \cap {"inspect", "remove"} # {} THEN 1 ELSE 0)
       /\ hist.stopCalls[p] = (IF hist.running[p] THEN 1 ELSE 0)
       /\ (hist.stopCalls[p] = 1 /\ td[p] # "stop" => hist.removeCalls[p] = 1)
       /\ (hist.inspected[p] = "found" /\ td[p] \notin {"inspect", "stop"} =>
             hist.removeCalls[p] = 1)

\* a successful run whose graceful stop failed in the finally block: the
\* forced remove followed, no hint was printed, and execute resolved
C17_Witness ==
  /\ hist.failed.fin = {"stop"} /\ hist.removeCalls.fin = 1
  /\ hist.hints.fin = 0
  /\ workflowResults.success /\ pc = "returned"

(***************************************************************************)
(* Properties of the argument handling (under SpecArgs)                    *)
(***************************************************************************)
\* C6 (as the code has it): a command line with no non-empty --issue value and
\* no non-empty --prompt value, one with a non-empty --issue value and
\* --create-issue, and so every one with --create-issue and no non-empty
\* --prompt value, ends with exit code 1 before the configuration is loaded
\* and before any GitHub or container operation.
C6_RejectedBeforeAnyWork ==
  LET empty(s) == s = Undef \/ s = <<>>
      rejectable ==
        \/ empty(opts.issue) /\ empty(opts.prompt)
        \/ ~empty(opts.issue) /\ opts.createIssue
        \/ opts.createIssue /\ empty(opts.prompt)
  IN rejectable =>
       /\ pc = "validate" /\ ~config.loaded /\ ~request.called
       /\ github.calls = {} /\ docker.calls = {}
       /\ (proc.exited => proc.exitCode = 1 /\ proc.exitVia = "graceful")

\* C6 as stated: a command line without --issue and without --prompt, one with
\* --issue and --create-issue, and one with --create-issue and without
\* --prompt ends with exit code 1 before the configuration is loaded and
\* before any GitHub or container operation
C6_RejectedWheneverGiven ==
  LET given(s) == s # Undef
      rejectable ==
        \/ ~given(opts.issue) /\ ~given(opts.prompt)
        \/ given(opts.issue) /\ opts.createIssue
        \/ opts.createIssue /\ ~given(opts.prompt)
  IN rejectable =>
       /\ pc = "validate" /\ ~config.loaded /\ ~request.called
       /\ github.calls = {} /\ docker.calls = {}
       /\ (proc.exited => proc.exitCode = 1 /\ proc.exitVia = "graceful")

\* --issue 4 --create-issue --prompt "please fix" has been rejected
C6_Witness ==
  /\ opts.issue = <<"4">> /\ opts.createIssue /\ opts.prompt = PromptPlease
  /\ proc.exited /\ proc.exitCode = 1 /\ ~config.loaded

\* C7 as stated: the request handed to execute carries a positive issue
\* number or a non-empty prompt, and createIssue only with a prompt and
\* without an issue number
C7_RequestUsable ==
  request.called =>
    /\ \/ (request.issueNumber.k = "num" /\ request.issueNumber.v > 0)
       \/ (request.prompt # Undef /\ request.prompt # <<>>)
    /\ request.createIssue =>
         /\ request.prompt # Undef /\ request.prompt # <<>>
         /\ request.issueNumber = UndefNum

C9_SuccessByExitCode ==
  LET plain == \A i \in 1..Len(stream.output) : stream.output[i] = "noise"
  IN /\ outcome # "pending" => (workflowResults.success <=> stream.inspected = 0)
     /\ workflowResults.success => stream.inspected = 0
     /\ (stream.inspected # NoExitCode /\ plain) =>
          /\ workflowResults.branchName = "unset"
          /\ workflowResults.commitHash = "unset"
          /\ workflowResults.prNumber = "unset"
          /\ workflowResults.prUrl = "unset"
          /\ workflowResults.qualityChecks = QualityUnset
          /\ (stream.inspected = 0 =>
                (outcome = "resolve" /\ ~workflowResults.error))

\* a run that printed nothing recognizable and exited with 0: success, and
\* nothing extracted
C9_Witness ==
  /\ stream.output = <<"noise", "noise">> /\ stream.inspected = 0
  /\ outcome = "resolve" /\ workflowResults.success
  /\ workflowResults.branchName = "unset" /\ workflowResults.qualityChecks = QualityUnset

(***************************************************************************)
(* Properties of the generated script (under SpecScript)                   *)
(***************************************************************************)
\* C18: when the checkout has succeeded and the current branch is not the
\* working branch, or git status --porcelain prints something, the agent CLI
\* is never invoked and the script, once over, has exited with 1; the
\* assertion that found the fault is the last line that ran.
C18_DirtyWorkspaceStopsScript ==
  LET n == Len(sh.ran)
      Ran(c) == \E i \in 1..n : sh.ran[i].cmd = c
  IN /\ (sh.world.branch # "working" \/ sh.world.dirty =>
           ~Ran("claude") /\ sh.exit \in {NoExitCode, 1})
     /\ (Ran("branch is not the working branch") /\ sh.world.branch # "working" =>
           sh.exit = 1 /\ sh.ran[n].cmd = "branch is not the working branch")
     /\ (Ran("status is not empty") /\ sh.world.dirty =>
           sh.exit = 1 /\ sh.ran[n].cmd = "status is not empty")

\* the checkout went through, the branch is right, the workspace is not clean
C18_Witness ==
  /\ sh.world.branch = "working" /\ sh.world.dirty
  /\ \E i \in 1..Len(sh.ran) : sh.ran[i].cmd = "git checkout" /\ ~sh.ran[i].failed
  /\ sh.ran[Len(sh.ran)].cmd = "status is not empty"
  /\ sh.exit = 1

\* the step of the script a command belongs to, in the order of the claim
C19_Stage(c) ==
  CASE c.cmd = "credential file is missing" -> 1
    [] c.cmd \in {"mkdir -p", "cd"} /\ c.arg \in {"/tmp/worker-shared", "$WORK_DIR"} -> 2
    [] c.cmd = "WORK_DIR=" -> 2
    [] c.cmd = "git init" -> 3
    [] c.cmd = "git config" /\ c.arg \in {"user.name", "user.email"} -> 3
    [] c.cmd = "git config" -> 4
    [] c.cmd = "mkdir -p" /\ c.arg = "/tmp/git-credentials" -> 4
    [] c.cmd = "export" /\ c.arg = "GIT_CONFIG_GLOBAL" -> 4
    [] c.cmd = "echo >" -> 4
    [] c.cmd = "git remote add" -> 5
    [] c.cmd = "git fetch" -> 6
    [] c.cmd = "git checkout" -> 7
    [] c.cmd \in {"git branch --show-current", "branch is not the working branch",
                  "git status --porcelain", "status is not empty"} -> 8
    [] c.cmd \in {"echo Initializing", "cp mcp-config", "echo Verifying",
                  "node require"} -> 9
    [] c.cmd = "export" -> 9
    [] c.cmd = "cat >" -> 10
    [] c.cmd = "claude" -> 11
    [] OTHER -> 0

\* C19 as stated: a failure of any step, an auxiliary-tool init command
\* included, ends the script with a nonzero exit code before any later step.
C19_AnyFailureEndsScript ==
  \A i \in 1..Len(sh.ran) :
    sh.ran[i].failed => i = Len(sh.ran) /\ sh.exit \notin {NoExitCode, 0}

\* C19, amended: the steps run in the order credential file check, workspace
\* directory, git init with identity, credential store, remote add, fetch,
\* checkout, branch/clean assertion, auxiliary-tool init commands, prompt
\* file, agent; the agent runs only after every one of them; a failure of a
\* step other than an auxiliary-tool init command ends the script with exit
\* code 1 before any later step; a failed init command (the copy of the
\* configuration, a require() probe) does not end the script.
C19_StepOrderAndFailures ==
  LET n == Len(sh.ran)
  IN /\ \A i, j \in 1..n : i < j => C19_Stage(sh.ran[i]) <= C19_Stage(sh.ran[j])
     /\ \A i \in 1..n :
          sh.ran[i].cmd = "claude" =>
            \A k \in (1..8) \cup {10} :
              \E j \in 1..(i - 1) : C19_Stage(sh.ran[j]) = k /\ ~sh.ran[j].failed
     /\ \A i \in 1..n :
          sh.ran[i].failed =>
            IF C19_Stage(sh.ran[i]) = 9
            THEN sh.exit # NoExitCode => i < n
            ELSE i = n /\ sh.exit = 1
     /\ (sh.exit = 0 => n = Len(sh.script) /\ sh.ran[n].cmd = "claude")

\* a require() probe failed, the agent ran all the same and the script ended
\* with 0
C19_Witness ==
  /\ sh.exit = 0
  /\ \E i \in 1..Len(sh.ran) : sh.ran[i].cmd = "node require" /\ sh.ran[i].failed
  /\ sh.ran[Len(sh.ran)].cmd = "claude"

(***************************************************************************)
(* Properties of the instruction filter (under SpecFilter)                 *)
(***************************************************************************)
\* a start marker with an end marker somewhere after it
C20_HasPair(t) ==
  \E i \in 1..Len(t) :
    /\ StartMarkerAtHead(SubSeq(t, i, Len(t)))
    /\ \E j \in (i + 2)..Len(t) : t[j] = "<!-- CONSTECH-WORKER-END -->"

\* no blank at either end, and no stretch of whitespace with three newlines
C20_Collapsed(t) ==
  /\ (t # <<>> => t[1] \notin WhiteSpace /\ t[Len(t)] \notin WhiteSpace)
  /\ \A i, k \in 1..Len(t) :
       (\A m \in i..k : t[m] \in WhiteSpace) =>
         Cardinality({m \in i..k : t[m] = "\n"}) <= 2

\* C20 as stated: for every input text, filtering the filtered text changes
\* nothing.
C20_FilterIdempotent ==
  sh.script # <<>> => RemoveWorkerSections(sh.instructions) = sh.instructions

\* C20, amended: filtering the filtered text changes nothing whenever the
\* filtered text holds no start marker followed by an end marker; and for a
\* text without such a pair the filtered text has the same pieces other than
\* whitespace, is trimmed and has no stretch of three newlines, and is the
\* text itself when the text already was so.
C20_FilterIdempotentOnFiltered ==
  sh.script # <<>> =>
    LET t == sh.claudeMd
        f == sh.instructions
        Ink(c) == c \notin WhiteSpace
    IN /\ (~C20_HasPair(f) => RemoveWorkerSections(f) = f)
       /\ (~C20_HasPair(t) =>
             /\ SelectSeq(f, Ink) = SelectSeq(t, Ink)
             /\ C20_Collapsed(f)
             /\ (C20_Collapsed(t) => f = t))

\* a text with a marked section between two words was filtered
C20_Witness ==
  /\ sh.script # <<>>
  /\ C20_HasPair(sh.claudeMd) /\ ~C20_HasPair(sh.instructions)
  /\ sh.instructions = <<"a", "\n", "a">>

\* the places of the start markers and of the end markers of a text
C21_Starts(t) == {i \in 1..Len(t) : StartMarkerAtHead(SubSeq(t, i, Len(t)))}
C21_Ends(t) == {j \in 1..Len(t) : t[j] = "<!-- CONSTECH-WORKER-END -->"}

\* C21 as stated: with exactly one matched pair the result holds no marker;
\* with markers but no matched pair the text is returned as it was; the result never has
\* more than one blank line in a row.
C21_StripsPairKeepsRest ==
  sh.script # <<>> =>
    LET t == sh.claudeMd
        f == sh.instructions
    IN /\ (Cardinality(C21_Starts(t)) = 1 /\ Cardinality(C21_Ends(t)) = 1
           /\ C20_HasPair(t) =>
             C21_Starts(f) = {} /\ C21_Ends(f) = {})
       /\ (C21_Starts(t) \cup C21_Ends(t) # {} /\ ~C20_HasPair(t) => f = t)
       /\ C20_Collapsed(f)

\* C21, amended: with exactly one start marker, one end marker and the end
\* after the start, the result has the pieces that stood outside the pair
\* (whitespace apart), none that stood inside it, and no end marker; with
\* markers but no start marker followed by an end marker, the result has all
\* the pieces of the text (whitespace apart) and is the text itself when the
\* text is trimmed and has no stretch of three newlines; the result always
\* is trimmed and has no stretch of three newlines.
C21_StripsPairKeepsRestModWhitespace ==
  sh.script # <<>> =>
    LET t == sh.claudeMd
        f == sh.instructions
        Ink(c) == c \notin WhiteSpace
    IN /\ (Cardinality(C21_Starts(t)) = 1 /\ Cardinality(C21_Ends(t)) = 1
           /\ C20_HasPair(t) =>
             LET i == CHOOSE i \in C21_Starts(t) : TRUE
                 j == CHOOSE j \in C21_Ends(t) : TRUE
                 outside == SubSeq(t, 1, i - 1) \o SubSeq(t, j + 1, Len(t))
             IN SelectSeq(f, Ink) = SelectSeq(outside, Ink)
                /\ C21_Ends(f) = {})
       /\ (C21_Starts(t) \cup C21_Ends(t) # {} /\ ~C20_HasPair(t) =>
             /\ SelectSeq(f, Ink) = SelectSeq(t, Ink)
             /\ Cardinality(C21_Starts(f)) = Cardinality(C21_Starts(t))
             /\ Cardinality(C21_Ends(f)) = Cardinality(C21_Ends(t))
             /\ (C20_Collapsed(t) => f = t))
       /\ C20_Collapsed(f)

\* a marked section with a word in it, between two words, was filtered
C21_Witness ==
  /\ sh.script # <<>>
  /\ sh.claudeMd = <<"a", "<!-- CONSTECH-", "WORKER-START -->", "a",
                     "<!-- CONSTECH-WORKER-END -->", "a">>
  /\ sh.instructions = <<"a", "a">>

(***************************************************************************)
(* Properties of the auxiliary-tool derivations (under SpecMcp)            *)
(***************************************************************************)
\* C22: with no auxiliary tool enabled the Dockerfile gets no install
\* command, no MCP directory or document is written, the container is
\* requested with the two standard bind mounts and no added variable, the
\* script has no init command, and preparation does not fail on that account;
\* with tools enabled the enabled list is a sublist of github, semgrep, ref
\* and the written document has exactly one entry per enabled tool.
C22_NoToolsNoOp ==
  LET servers == GetEnabledServers(config.mcpServers)
      Order == <<"github", "semgrep", "ref">>
      InOrder(q) == \A i, j \in 1..Len(q) :
                      i < j => \E a, b \in 1..3 : a < b /\ Order[a] = q[i]
                                                  /\ Order[b] = q[j]
  IN /\ (config.loaded /\ servers = <<>> =>
           /\ docker.build = <<>> /\ docker.mcpConfig = <<>>
           /\ docker.env = <<>>
           /\ "mcp" \notin hostDirs /\ pc # "mcpConfig"
           /\ \A b \in docker.binds : b.to # "/tmp/mcp-config.json"
           /\ ("createContainer" \in docker.calls => Cardinality(docker.binds) = 2)
           /\ (sh.script # <<>> =>
                 \A i \in 1..Len(sh.script) :
                   sh.script[i].cmd \notin {"echo Initializing", "cp mcp-config",
                                            "echo Verifying", "node require"})
           /\ (outcome = "reject" =>
                 pc \in {"image", "createContainer"}))
     /\ (config.loaded => InOrder(servers)
           /\ \A n \in {"github", "semgrep", "ref"} :
                config.mcpServers[n] <=> \E i \in 1..Len(servers) : servers[i] = n)
     /\ (docker.mcpConfig # <<>> =>
           /\ Len(docker.mcpConfig) = Len(servers)
           /\ \A n \in {"github", "semgrep", "ref"} :
                Cardinality({i \in 1..Len(docker.mcpConfig) :
                               docker.mcpConfig[i] = n})
                  = (IF config.mcpServers[n] THEN 1 ELSE 0))

\* no tool enabled: the default image was built, the container was created
\* and the script was generated
C22_Witness ==
  /\ config.loaded /\ GetEnabledServers(config.mcpServers) = <<>>
  /\ tempDockerDir = "dockerfile" /\ docker.container = "created"
  /\ Cardinality(docker.binds) = 2 /\ sh.script # <<>>

(***************************************************************************)
(* Properties of dispatch's exits (under SpecExit)                         *)
(***************************************************************************)
\* C23: dispatch's own exits all carry code 1; invalid arguments, a
\* configuration that does not load or (without --force) does not validate,
\* and a missing bot token never get as far as execute; once execute has
\* rejected the process has exited with code 1; after a successful workflow
\* dispatch has returned and the process, if over, ended with code 0.
C23_ExitCodes ==
  /\ (proc.exitVia = "graceful" => proc.exited /\ proc.exitCode = 1)
  /\ (\/ ValidateArgs(opts) = "reject"
      \/ ~env.loads
      \/ ~env.valid /\ ~opts.force
      \/ ~env.token /\ ~opts.dryRun
      => /\ ~request.called /\ outcome = "pending"
         /\ pc \in {"validate", "banner"}
         /\ (ValidateArgs(opts) = "reject" => pc = "validate")
         /\ (proc.exited /\ proc.exitVia # "signal" =>
               proc.exitVia = "graceful"))
  /\ (outcome = "reject" /\ (pc # "teardown" \/ td.fin = "done") =>
        proc.exited /\ proc.exitCode = 1 /\ proc.exitVia = "graceful")
  /\ (outcome = "resolve" /\ (pc # "teardown" \/ td.fin = "done") =>
        pc = "returned" /\ (proc.exited => proc.exitCode = 0))

\* C23, amended: the same, the code after a successful workflow being 0
\* unless a second interrupt forced the process down while the signal
\* handler's teardown was still running.
C23_ExitCodesUnlessForced ==
  /\ (proc.exitVia = "graceful" => proc.exited /\ proc.exitCode = 1)
  /\ (\/ ValidateArgs(opts) = "reject"
      \/ ~env.loads
      \/ ~env.valid /\ ~opts.force
      \/ ~env.token /\ ~opts.dryRun
      => /\ ~request.called /\ outcome = "pending"
         /\ pc \in {"validate", "banner"}
         /\ (ValidateArgs(opts) = "reject" => pc = "validate")
         /\ (proc.exited /\ proc.exitVia # "signal" =>
               proc.exitVia = "graceful"))
  /\ (outcome = "reject" /\ (pc # "teardown" \/ td.fin = "done") =>
        proc.exited /\ proc.exitCode = 1 /\ proc.exitVia = "graceful")
  /\ (outcome = "resolve" /\ (pc # "teardown" \/ td.fin = "done") =>
        /\ pc = "returned"
        /\ (proc.exited /\ proc.exitVia # "force" => proc.exitCode = 0)
        /\ (proc.exitVia = "force" => signals >= 2 /\ td.sig # "done"))

\* the bot token is missing: dispatch left with code 1 before calling execute
C23_Witness ==
  /\ config.loaded /\ ~env.token /\ ~opts.dryRun
  /\ proc.exited /\ proc.exitVia = "graceful" /\ proc.exitCode = 1

\* C24: a configuration that fails the schema makes dispatch exit with code
\* 1 without --force, and with --force dispatch goes on to call execute.
C24_ForceSkipsValidation ==
  ~env.valid /\ env.loads /\ ValidateArgs(opts) = "ok" =>
    IF opts.force
    THEN env.token /\ ~opts.dryRun /\ proc.exitVia = "graceful" =>
           request.called
    ELSE /\ ~request.called /\ pc \in {"validate", "banner"}
         /\ (proc.exitVia = "graceful" => proc.exitCode = 1)

\* C25: with --dry-run, valid arguments and a configuration that loads,
\* dispatch sends no GitHub or Docker request, no container exists, no
\* host directory is made, the cleanup registry stays empty, execute is never
\* called, dispatch returns and the process ends with code 0, whether or not
\* the bot token is set.
C25_DryRunTouchesNothing ==
  opts.dryRun /\ ValidateArgs(opts) = "ok" /\ ConfigLoad(env) = "loaded" =>
    /\ github.calls = {} /\ docker.calls = {} /\ docker.container = "none"
    /\ hostDirs = {} /\ cleanupFunctions = <<>> /\ hist.tdStarts = 0
    /\ ~request.called /\ outcome = "pending"
    /\ pc \in {"validate", "banner", "returned"}
    /\ (proc.exited => proc.exitCode = 0 /\ proc.exitVia # "graceful")

\* a dry run without the bot token returned and the process ended
C25_Witness ==
  /\ opts.dryRun /\ ~env.token /\ config.loaded
  /\ pc = "returned" /\ proc.exited /\ proc.exitVia = "normal"

(***************************************************************************)
(* Properties of the base branch (under SpecScript)                        *)
(***************************************************************************)
\* C26: the branch the script fetches and checks out, and the branch the
\* agent's prompt names, is the one given with --base, or the configured
\* working branch when --base is not given.
C26_BaseBranchIsUsed ==
  sh.script # <<>> =>
    LET wanted == IF sh.base # "" THEN sh.base ELSE WorkingBranch
    IN /\ \A i \in 1..Len(sh.script) :
            sh.script[i].cmd \in {"git fetch", "git checkout"} =>
              sh.script[i].arg = wanted
       /\ sh.promptBranch = wanted

(***************************************************************************)
(* Properties of containers --clean (under SpecClean)                      *)
(***************************************************************************)
\* C27: without --force no stop or remove request is ever sent for a
\* container listed as running; a failed stop or remove never ends the loop
\* (the containers before the one in hand all have their outcome, and at the
\* summary every one has); and every matched container has exactly one
\* outcome, skipped, cleaned or failed, the counters adding up to the number
\* of matched containers.
C27_CleanSkipsRunningAndGoesOn ==
  LET n == Len(cl.workers)
      Count(o) == Cardinality({i \in 1..Len(cl.outcome) : cl.outcome[i] = o})
  IN /\ \A k \in cl.calls :
          /\ k.i \in 1..n
          /\ (~cl.force => cl.workers[k.i].state # "running")
     /\ (cl.phase \in {"stop", "remove"} =>
           cl.at \in 1..n /\ Len(cl.outcome) = cl.at - 1)
     /\ (cl.phase = "done" => Len(cl.outcome) = n)
     /\ (cl.phase = "threw" => cl.calls = {} /\ cl.outcome = <<>>)
     /\ cl.cleaned = Count("cleaned") /\ cl.failed = Count("failed")
     /\ cl.skipped = Count("skipped")
     /\ cl.cleaned + cl.failed + cl.skipped = Len(cl.outcome)
     /\ \A i \in 1..Len(cl.outcome) :
          /\ cl.outcome[i] \in {"skipped", "cleaned", "failed"}
          /\ (cl.outcome[i] = "skipped" <=>
                cl.workers[i].state = "running" /\ ~cl.force)
          /\ (cl.outcome[i] = "cleaned" =>
                [i |-> i, op |-> "remove"] \in cl.calls)
          /\ (cl.outcome[i] # "skipped" => \E k \in cl.calls : k.i = i)

\* without --force: a removal failed, a running container was skipped, and
\* the container after them was still removed
C27_Witness ==
  /\ ~cl.force /\ cl.phase = "done"
  /\ cl.outcome = <<"failed", "skipped", "cleaned">>

C29_ClosureRegisteredUntilTornDown ==
  /\ ~proc.exited
  /\ pc \in {"start", "startInspect", "script", "exec", "streaming",
              "execInspect", "logs", "teardown"}
  /\ td.fin # "done"
  => \E i \in 1..Len(cleanupFunctions) : cleanupFunctions[i] = "teardown"

(***************************************************************************)
(* Properties of a failed container start (under Spec)                     *)
(***************************************************************************)
\* C30: when container.start() was rejected, or the container was not
\* running at the inspect after it, no exec is ever requested and nothing is
\* captured from a script; execute settles by rejecting with the failure
\* recorded; and once the process is over the container is gone.
C30_StartFailureTornDown ==
  hist.startFailed =>
    /\ "exec" \notin docker.calls /\ stream.output = <<>>
    /\ pc \in {"logs", "teardown"}
    /\ (outcome # "pending" =>
          /\ outcome = "reject"
          /\ ~workflowResults.success /\ workflowResults.error)
    /\ (proc.exited =>
          /\ outcome = "reject" /\ proc.exitCode = 1
          /\ ~ContainerExists)

\* C30, amended: the same, with the exit code and the removal claimed for
\* runs that no interrupt disturbed and, for the removal, whose teardown
\* requests to Docker all succeeded; the finally block's teardown has then
\* run exactly once and to its end.
C30_StartFailureTornDownUndisturbed ==
  hist.startFailed =>
    /\ "exec" \notin docker.calls /\ stream.output = <<>>
    /\ pc \in {"logs", "teardown"}
    /\ (outcome # "pending" =>
          /\ outcome = "reject"
          /\ ~workflowResults.success /\ workflowResults.error)
    /\ (proc.exited /\ signals = 0 =>
          /\ outcome = "reject" /\ proc.exitCode = 1
          /\ td.fin = "done" /\ hist.tdStarts = 1
          /\ (hist.failed["fin"] = {} => ~ContainerExists))

\* container.start() was rejected, nobody interrupted, and the finally
\* block's teardown removed the container before dispatch left with code 1
C30_Witness ==
  /\ hist.startFailed /\ signals = 0 /\ ~docker.externalRemoved
  /\ proc.exited /\ proc.exitCode = 1
  /\ hist.removeCalls["fin"] = 1 /\ docker.container = "removed"

(***************************************************************************)
(* Properties of the prompt file (under SpecPrompt)                        *)
(***************************************************************************)
\* C31: whatever the prompt, the script text reaches the container as
\* generated, the text piped to the agent is the full prompt (ended by the
\* line break echo adds), and the shell has interpreted no part of it.
C31_PromptReachesAgentVerbatim ==
  /\ (sh.script # <<>> =>
        /\ sh.deliveredPrompt = sh.prompt
        /\ sh.deliveredBody = HeredocBody(sh.prompt))
  /\ ~sh.interpreted
  /\ \A i \in 1..Len(sh.ran) :
       sh.ran[i].cmd = "claude" =>
         sh.piped = FullPrompt(sh.prompt) \o <<"\n">>

(***************************************************************************)
(* Properties of the quality-check map (under SpecQuality)                 *)
(***************************************************************************)
\* C32: once the captured output was parsed, every configured quality-check
\* command that the output mentions has an entry in the pass/fail map, and
\* the map has an entry only when a configured command is mentioned.
C32_ChecksFollowConfiguration ==
  LET checks == workflowResults.qualityChecks
      mentioned == {c \in config.qualityChecks :
                      OutputIncludes(stream.output, c)}
      recorded == checks # QualityUnset
  IN outcome # "pending" /\ stream.inspected # NoExitCode =>
       /\ (mentioned # {} => recorded)
       /\ (recorded => mentioned # {})

C34_TornDown ==
  /\ td.fin = "done" /\ outcome # "pending"
  /\ (docker.container = "removed" \/ hist.failed.fin # {})
  /\ (hist.failed.fin \cap {"inspect", "remove"} # {} => hist.hints.fin > 0)
  /\ "teardown" \notin ExecuteCleanup(cleanupFunctions)
  /\ (pc = "returned" \/ proc.exited)

\* C34 as stated: every run that created a container eventually is torn
\* down with execute settled and the closure unregistered.
C34_EveryRunTornDown == (docker.container # "none") ~> C34_TornDown

\* C34: every run that created a container and that no interrupt disturbs
\* eventually is torn down with execute settled and the closure unregistered.
C34_UndisturbedRunTornDown ==
  (docker.container # "none") ~> (C34_TornDown \/ signals > 0)

\* an undisturbed run at its end, the container removed
C34_Witness ==
  /\ C34_TornDown /\ signals = 0 /\ docker.container = "removed"
  /\ hist.failed.fin = {} /\ outcome = "resolve"

(***************************************************************************)
(* Properties of readClaudeInstructions (under SpecFilter)                 *)
(***************************************************************************)
\* C35: hasWorkerSections is true exactly when the text holds a start marker
\* with an end marker after it, and a missing file gives empty full and
\* filtered texts with hasWorkerSections false.
C35_FlagMeansMarkerPair ==
  sh.script # <<>> =>
    IF sh.claudeFile = "missing"
    THEN sh.read = [full |-> <<>>, filtered |-> <<>>, hasWorkerSections |-> FALSE]
    ELSE /\ sh.read.full = sh.claudeMd
         /\ sh.read.hasWorkerSections <=> C20_HasPair(sh.claudeMd)

(***************************************************************************)
(* Properties of the CleanupManager (under SpecRegistry)                   *)
(***************************************************************************)
\* C36: a call of executeCleanup invokes every registered function once, in
\* order, also those after one that throws or rejects; its promise never
\* rejects; it leaves the registry as it is, and the registry loses an
\* entry only in unregisterCleanup, one occurrence at a time.
C36_EveryFunctionRunsNoneRemoved ==
  /\ [](/\ cm.result # "rejected"
        /\ (cm.result = "fulfilled" =>
              /\ Len(cm.wrappers) = Len(cm.invoked)
              /\ cm.warnings = Cardinality({i \in 1..Len(cm.invoked) :
                                              cm.invoked[i] \in {"throws", "rejects"}})))
  /\ [][/\ (cm'.op = "executeCleanup" =>
              /\ cm'.invoked = cleanupFunctions
              /\ cleanupFunctions' = cleanupFunctions)
         /\ (cm'.op = "settle" => cleanupFunctions' = cleanupFunctions)
         /\ (Len(cleanupFunctions') < Len(cleanupFunctions) =>
              /\ cm'.op = "unregisterCleanup"
              /\ Len(cleanupFunctions') = Len(cleanupFunctions) - 1)]_vars

\* a call that found three functions, the first throwing a value without a
\* message, the second rejecting: all three were invoked, one warning was
\* logged, the promise is fulfilled and the registry still holds the three
C36_Witness ==
  /\ cm.result = "fulfilled" /\ cm.op = "settle"
  /\ cm.invoked = <<"throwsNull", "rejects", "resolves">>
  /\ cleanupFunctions = cm.invoked /\ cm.warnings = 1

(***************************************************************************)
(* Properties of the signal handler's exit (under Spec)                    *)
(***************************************************************************)
\* C37 as stated: after a first interrupt the process exits with code 0.
C37_FirstInterruptExitsZero ==
  proc.exited /\ signals = 1 => proc.exitCode = 0

\* C37: the signal handler always exits with code 0, never with 1, and it
\* does so in the step in which its cleanup settles (at once when nothing is
\* registered), whether or not the cleanup failed and with the workflow
\* unfinished; a process that exits after one interrupt with another code
\* was ended by the main flow, through exitGracefully.
C37_HandlerExitsZeroWhenSettled ==
  /\ [](proc.exitVia = "signal" =>
          /\ proc.exitCode = 0 /\ signals >= 1
          /\ td.sig \in {"idle", "done"})
  /\ []((proc.exited /\ signals = 1 /\ proc.exitCode # 0) =>
          (proc.exitVia = "graceful" /\ td.fin = "done" /\ outcome = "reject"))
  /\ [][(~proc.exited /\ td.sig # "done" /\ td'.sig = "done") =>
          (proc'.exited /\ proc'.exitCode = 0 /\ proc'.exitVia = "signal")]_vars
  /\ [][(~proc.exited /\ signals' = 1 /\ signals = 0 /\ cleanupFunctions = <<>>) =>
          (proc'.exited /\ proc'.exitCode = 0 /\ proc'.exitVia = "signal")]_vars

\* one interrupt during the run, the handler's removal of the container
\* failed: exit code 0, execute never settled
C37_Witness ==
  /\ proc.exited /\ proc.exitVia = "signal" /\ proc.exitCode = 0
  /\ signals = 1 /\ "remove" \in hist.failed.sig /\ ContainerExists
  /\ outcome = "pending"

(***************************************************************************)
(* Properties of ConfigManager.merge (under SpecInit)                      *)
(***************************************************************************)
\* the value of object o under key k, a leaf "absent" when o has no such key
C38_At(o, k) == IF k \in DOMAIN o THEN o[k] ELSE Leaf("absent")
\* the fields of the object under key k, none when there is no object
C38_In(o, k) ==
  IF k \in DOMAIN o /\ o[k].kind = "object" THEN o[k].fields ELSE EmptyObject

\* C38: once merge has saved, a field for which the detected configuration
\* holds undefined, null or the placeholder, or no key at all, has the
\* value the current configuration had; this for the top-level keys and
\* for the fields of the top-level objects.
C38_UndetectedFieldsKept ==
  ini.phase = "saved" =>
    LET nothing == {Leaf("absent"), Leaf("undefined"), Leaf("null"),
                    Leaf("auto-detect")}
        tops == DOMAIN ini.current \cup DOMAIN ini.detected
    IN /\ \A k \in tops :
            C38_At(ini.detected, k) \in nothing =>
              C38_At(ini.saved, k) = C38_At(ini.current, k)
       /\ \A k \in tops :
            \A f \in DOMAIN C38_In(ini.current, k)
                      \cup DOMAIN C38_In(ini.detected, k) :
              C38_At(C38_In(ini.detected, k), f) \in nothing =>
                C38_At(C38_In(ini.saved, k), f) = C38_At(C38_In(ini.current, k), f)

====
